---- MODULE Spec2Model ----
(***************************************************************************)
(* The session / intent / confirmation engine of the Adashi WhatsApp bot.  *)
(*                                                                         *)
(* The repository holds several revisions of the webhook program.  Three   *)
(* of them carry the confirmation gate or its predecessor, two carry the   *)
(* step-by-step forms; the variable impl says which of them is deployed:   *)
(*   "legacy"  src/unnamed/part_002           (auto-extraction, no gate)   *)
(*   "api"     src/api/index.js               (gate, direct contribution)  *)
(*   "gate"    src/unnamed/part_003:574-1481  (gate, leader approval)      *)
(*   "redis"   src/unnamed/part_003:1-571     (forms and invites, Redis)   *)
(*   "wizard"  src/unnamed/part_004:1-706     (forms and invites, Airtable)*)
(*                                                                         *)
(* One action is one whole run of app.post('/webhook') for one inbound     *)
(* message.  Every awaited call to the record store or to the messaging    *)
(* gateway may fail; which calls fail in a run is an input of the action.  *)
(* A text is a sequence of lower-cased word tokens (the regular            *)
(* expressions of the source are matched token by token).                  *)
(***************************************************************************)
EXTENDS Naturals, Integers, Sequences, FiniteSets, TLC

VARIABLES
  impl,            \* which revision of the program is deployed
  now,             \* Date.now(), in units of 150 000 ms
  pendingActions,  \* Map phone -> pending action (NoAction: no entry)
  members,         \* table Members, in creation order
  groups,          \* table Groups, in creation order
  pendingPayments, \* table PendingPayments, in creation order (id = index)
  contributions,   \* table Contributions, in creation order
  userState,       \* Map phone -> state of the multi-step form
  joinRequests,    \* table JoinRequests, in creation order
  memory,          \* Map phone -> message window (runtime history)
  conversations,   \* table ConversationHistory, per phone, in creation order
  request,         \* messages of the last completion request
  running,         \* the webhook runs suspended at an await: position and
                   \* local variables of each
  out              \* what the last webhook run sent, remembered and answered

vars == <<impl, now, pendingActions, members, groups, pendingPayments,
          contributions, userState, joinRequests, memory, conversations,
          request, running, out>>

----------------------------------------------------------------------------
(* Bounds of the model *)

MaxTime == 3
MaxMembers == 2
MaxGroups == 2
MaxPendingPayments == 1
MaxContributions == 1
MaxFaults == 1
MaxJoinRequests == 2
MaxExchanges == 11

(* Program constants *)

\* 5 * 60 * 1000 ms, in units of 150 000 ms
PendingTTL == 2
\* 10 * 60 * 1000 ms, in units of 150 000 ms (pending.set of the later revisions)
PendingTTL10 == 4
\* finalAmount < 1000000
MaxAmount == 1000000
RuntimeWindow == 15
HistoryWindow == 20
RecentTurns == 8
StoredExchanges == 10

Phones == {"p1", "p2"}
NoPhone == "none"

----------------------------------------------------------------------------
(* Texts *)

RecIds == <<"rec1", "rec2", "rec3", "rec4">>

RecIndex(tok) ==
  IF \E i \in 1..Len(RecIds) : RecIds[i] = tok
    THEN CHOOSE i \in 1..Len(RecIds) : RecIds[i] = tok
    ELSE 0

TYes == <<"yes">>
THello == <<"hello">>
TPaid == <<"i", "paid", "5000", "naira">>
TName == <<"my", "name", "is", "ada">>
TConfirmPay(i) == <<"confirm", "payment", RecIds[i]>>
TRejectPay(i) == <<"reject", "payment", RecIds[i]>>

Texts ==
  {TYes, <<"no">>, THello, TPaid, TName,
   <<"create", "a", "group", "called", "savers">>,
   <<"join", "group", "savers">>}
    \cup {TConfirmPay(i) : i \in 1..MaxPendingPayments}
    \cup {TRejectPay(i) : i \in 1..MaxPendingPayments}

\* contacts[0].profile.name; 'User' is the default of the handler
SenderNames == {<<"User">>}

Min(S) == CHOOSE x \in S : \A y \in S : x <= y
Max(S) == CHOOSE x \in S : \A y \in S : y <= x

\* parseInt of one character, -1 for a character that is no digit
DigitValue(c) ==
  CASE c = "0" -> 0 [] c = "1" -> 1 [] c = "2" -> 2 [] c = "3" -> 3
    [] c = "4" -> 4 [] c = "5" -> 5 [] c = "6" -> 6 [] c = "7" -> 7
    [] c = "8" -> 8 [] c = "9" -> 9 [] OTHER -> -1

\* parseFloat of the first e characters, digits and commas, with the commas
\* removed
RECURSIVE NumberOf(_, _)
NumberOf(chars, e) ==
  IF e = 0 THEN 0
  ELSE IF chars[e] = "," THEN NumberOf(chars, e - 1)
  ELSE NumberOf(chars, e - 1) * 10 + DigitValue(chars[e])

\* the characters of the tokens in which an amount is written
Spelling(tok) ==
  CASE tok = "50" -> <<"5", "0">>
    [] tok = "5k" -> <<"5", "k">>
    [] tok = "5K" -> <<"5", "K">>
    [] tok = "1.5k" -> <<"1", ".", "5", "k">>
    [] tok = "1.50k" -> <<"1", ".", "5", "0", "k">>
    [] tok = "999,999" -> <<"9", "9", "9", ",", "9", "9", "9">>
    [] tok = "2,000,000" -> <<"2", ",", "0", "0", "0", ",", "0", "0", "0">>
    [] OTHER -> <<>>

\* \d+(?:,\d{3})* on characters that start with a digit: \d+ runs to the
\* last digit of the first run e1, then every following ",ddd" is taken.
\* The position of the last character taken.
GroupsEnd(chars, e1) ==
  Max({e \in e1..Len(chars) :
         /\ (e - e1) % 4 = 0
         /\ \A j \in (e1 + 1)..e :
              IF (j - e1) % 4 = 1 THEN chars[j] = ","
              ELSE DigitValue(chars[j]) >= 0})

\* (?:\.\d{2})?\s*(naira|...|k)? after the digits that end at e2: ".dd" is
\* taken only with two digits, and the suffix is sought right after what was
\* taken.  [whole, hundredths]: parseFloat of group 1 with the commas
\* removed; suffixK: group 2 is 'k' or 'K'; atEnd: the match ends with the
\* token.
MatchAt(chars, e2) ==
  LET dec == /\ e2 + 3 <= Len(chars)
             /\ chars[e2 + 1] = "."
             /\ DigitValue(chars[e2 + 2]) >= 0
             /\ DigitValue(chars[e2 + 3]) >= 0
  IN  [whole |-> NumberOf(chars, e2),
       hundredths |-> IF dec THEN 10 * DigitValue(chars[e2 + 2])
                                    + DigitValue(chars[e2 + 3])
                             ELSE 0,
       suffixK |-> IF dec
                     THEN e2 + 3 < Len(chars) /\ chars[e2 + 4] \in {"k", "K"}
                     ELSE e2 < Len(chars) /\ chars[e2 + 1] \in {"k", "K"},
       atEnd |-> IF dec THEN e2 + 3 = Len(chars) ELSE e2 = Len(chars)]

\* /(\d+(?:,\d{3})*(?:\.\d{2})?)\s*(naira|...|k)?/i on the characters of a
\* token that starts with a digit
amountMatch(chars) ==
  MatchAt(chars,
          GroupsEnd(chars,
                    Max({e \in 0..Len(chars) :
                           \A j \in 1..e : DigitValue(chars[j]) >= 0})))

\* The digits a token holds (\d+(?:,\d{3})*), as a number; -1: no digit.
DigitsOf(tok) ==
  CASE tok = "5000" -> 5000
    [] tok = "rec1" -> 1
    [] tok = "rec2" -> 2
    [] tok = "rec3" -> 3
    [] tok = "rec4" -> 4
    [] tok \in {"50", "5k", "5K", "1.5k", "1.50k", "999,999", "2,000,000"} ->
         amountMatch(Spelling(tok)).whole
    [] OTHER -> -1

\* number of characters of a token
TokLen(tok) ==
  CASE tok \in {"i", "a"} -> 1
    [] tok \in {"my", "is", "no", "ok", "am", "me"} -> 2
    [] tok \in {"yes", "ada", "pay"} -> 3
    [] OTHER -> 4

\* String.prototype.toLowerCase, token by token
LowerToken(tok) ==
  CASE tok = "Today" -> "today"
    [] tok = "None" -> "none"
    [] tok = "YES" -> "yes"
    [] tok = "Confirm" -> "confirm"
    [] tok = "Please" -> "please"
    [] tok = "Paid" -> "paid"
    [] OTHER -> tok

toLowerCase(text) == [i \in 1..Len(text) |-> LowerToken(text[i])]

\* String.prototype.trim: the blanks before the first and after the last
\* word are dropped; the token " " is a run of blanks
RECURSIVE trim(_)
trim(text) ==
  IF text # <<>> /\ Head(text) = " " THEN trim(Tail(text))
  ELSE IF text # <<>> /\ text[Len(text)] = " "
    THEN trim(SubSeq(text, 1, Len(text) - 1))
  ELSE text

\* a test of the message as it was typed
isConfirmation_AsTyped(text) ==
  text \in {<<"yes">>, <<"yeah">>, <<"yep">>, <<"confirm">>, <<"confirmed">>,
            <<"correct">>, <<"ok">>, <<"okay">>, <<"sure">>, <<"proceed">>,
            <<"go", "ahead">>}

\* /^(yes|yeah|...|go ahead)$/i.test(messageBody.trim())
isConfirmation(text) ==
  toLowerCase(trim(text))
     \in {<<"yes">>, <<"yeah">>, <<"yep">>, <<"confirm">>, <<"confirmed">>,
            <<"correct">>, <<"ok">>, <<"okay">>, <<"sure">>, <<"proceed">>,
            <<"go", "ahead">>}

NoIntent ==
  [type |-> "none", amount |-> 0, name |-> <<>>, groupName |-> <<>>,
   pendingId |-> 0]

\* position of the first token holding digits, 0 if none
FirstAmountPos(text) ==
  Min({i \in 1..(Len(text) + 1) :
         i = Len(text) + 1 \/ DigitsOf(text[i]) >= 0}) % (Len(text) + 1)

\* (\d+...)\s*(naira|ngn|k)? at the token of position i: the amount, times
\* 1000 under a 'k' suffix that follows the number in its token or, after
\* blanks, as the next token.  parseFloat keeps the decimals, which the texts
\* write only under 'k', so the amounts are integers.
AmountAt(text, i) ==
  LET nextK == i < Len(text) /\ text[i + 1] \in {"k", "K"}
      m == amountMatch(Spelling(text[i]))
  IN  IF i = 0 THEN 0
      ELSE IF Spelling(text[i]) = <<>>
        THEN (IF nextK THEN DigitsOf(text[i]) * 1000 ELSE DigitsOf(text[i]))
      ELSE IF m.suffixK \/ (m.atEnd /\ nextK)
        THEN m.whole * 1000 + m.hundredths * 10
      ELSE m.whole

\* the run of letter tokens ([a-zA-Z]+) that follows position i
RECURSIVE AlphaRun(_, _)
AlphaRun(text, i) ==
  IF i > Len(text) \/ DigitsOf(text[i]) # -1 THEN <<>>
  ELSE <<text[i]>> \o AlphaRun(text, i + 1)

RECURSIVE CharLen(_)
CharLen(toks) ==
  IF toks = <<>> THEN 0
  ELSE TokLen(Head(toks)) + (IF Len(toks) > 1 THEN 1 ELSE 0) + CharLen(Tail(toks))

\* the matches <<first, last>> of an introduction phrase
\* (my name is | i am | i'm | call me | this is | name:?)
IntroPhrases(text, withNameWord) ==
  {m \in (1..Len(text)) \X (1..Len(text)) :
     \/ /\ m[2] = m[1] + 2
        /\ text[m[1]] = "my" /\ text[m[1] + 1] = "name" /\ text[m[2]] = "is"
     \/ /\ m[2] = m[1] + 1
        /\ <<text[m[1]], text[m[2]]>> \in
             {<<"i", "am">>, <<"call", "me">>, <<"this", "is">>}
     \/ m[2] = m[1] /\ text[m[1]] = "i'm"
     \/ m[2] = m[1] /\ withNameWord /\ text[m[1]] \in {"name", "name:"}}


\* the name captured by the leftmost match of the introduction pattern:
\* ([a-zA-Z][a-zA-Z\s]{2,N}), trimmed
ExtractName(text, withNameWord) ==
  LET hits == {m \in IntroPhrases(text, withNameWord) :
                 CharLen(AlphaRun(text, m[2] + 1)) >= 3}
      first == Min({m[1] : m \in hits})
      match == CHOOSE m \in hits : m[1] = first
  IN  IF hits = {} THEN <<>> ELSE AlphaRun(text, match[2] + 1)

GroupNouns == {"group", "community"}

\* (?:create|start|open|set up) ends at position j
VerbEndsAt(text, j) ==
  /\ j >= 1
  /\ \/ text[j] \in {"create", "start", "open"}
     \/ j >= 2 /\ text[j - 1] = "set" /\ text[j] = "up"

\* (create|start|open|set up) (a )?(group|community) (called|named) X
CreateGroupName(text) ==
  LET hits == {i \in 3..Len(text) :
                 /\ text[i] \in {"called", "named"}
                 /\ text[i - 1] \in GroupNouns
                 /\ \/ VerbEndsAt(text, i - 2)
                    \/ text[i - 2] = "a" /\ VerbEndsAt(text, i - 3)
                 /\ i < Len(text)}
  IN  IF hits = {} THEN <<>>
      ELSE SubSeq(text, Min(hits) + 1, Len(text))

\* join (group|community) X
JoinGroupName(text) ==
  LET hits == {i \in 2..Len(text) :
                 /\ text[i] \in GroupNouns
                 /\ text[i - 1] = "join"
                 /\ i < Len(text)}
  IN  IF hits = {} THEN <<>>
      ELSE SubSeq(text, Min(hits) + 1, Len(text))

\* (confirm|reject) payment <id>
LeaderCommandId(text, verb) ==
  LET hits == {i \in 3..Len(text) :
                 text[i - 2] = verb /\ text[i - 1] = "payment"}
  IN  IF hits = {} THEN <<>> ELSE <<text[Min(hits)]>>

\* part_003 detectIntent: payment, then name, then create, join, leader commands
detectIntent(text) ==
  LET hasAmount == FirstAmountPos(text) > 0
      hasKeyword ==
        \E i \in 1..Len(text) :
          LowerToken(text[i]) \in {"paid", "pay", "sent", "send", "transferred",
                       "transfer", "deposited", "deposit", "contribute",
                       "contribution"}
      amount == AmountAt(text, FirstAmountPos(text))
      name == ExtractName(text, TRUE)
      created == CreateGroupName(text)
      joined == JoinGroupName(text)
      confirmId == LeaderCommandId(text, "confirm")
      rejectId == LeaderCommandId(text, "reject")
  IN  IF hasAmount /\ hasKeyword /\ amount > 0 /\ amount < MaxAmount
        THEN [NoIntent EXCEPT !.type = "payment", !.amount = amount]
      ELSE IF name # <<>> /\ \A i \in 1..Len(name) :
                                name[i] \notin {"user", "unknown", "member"}
        THEN [NoIntent EXCEPT !.type = "name_update", !.name = name]
      ELSE IF created # <<>>
        THEN [NoIntent EXCEPT !.type = "create_group", !.groupName = created]
      ELSE IF joined # <<>>
        THEN [NoIntent EXCEPT !.type = "join_group", !.groupName = joined]
      ELSE IF confirmId # <<>>
        THEN [NoIntent EXCEPT !.type = "leader_confirm_payment",
                              !.pendingId = RecIndex(confirmId[1])]
      ELSE IF rejectId # <<>>
        THEN [NoIntent EXCEPT !.type = "leader_reject_payment",
                              !.pendingId = RecIndex(rejectId[1])]
      ELSE NoIntent

\* api/index.js detectIntent: payment and name only
detectIntentApi(text) ==
  LET i == detectIntent(text)
  IN  IF i.type \in {"payment", "name_update"} THEN i ELSE NoIntent

\* part_002 extractAndSaveData: the amount pattern has no 'k' suffix and the
\* payment words are sought with includes()
LegacyAmount(text) ==
  LET i == FirstAmountPos(text)
      hasKeyword ==
        \E j \in 1..Len(text) :
          text[j] \in {"paid", "sent", "transferred", "deposited"}
  IN  IF i > 0 /\ hasKeyword /\ DigitsOf(text[i]) > 0 /\ DigitsOf(text[i]) < MaxAmount
        THEN DigitsOf(text[i]) ELSE 0

----------------------------------------------------------------------------
(* The environment of one webhook run: which awaited calls succeed *)

\* what the completion service does with the request:
\*   "ok"          a success status and a body with choices[0].message
\*   "status"      a non-success status with a JSON error body
\*   "no_choices"  a JSON body without choices
\*   "not_json"    a body response.json() cannot parse
\*   "network"     fetch() rejects
Completions == {"ok", "status", "no_choices", "not_json", "network"}

AllEnvs ==
  [lookupOk : BOOLEAN,   \* base(table).select(...).firstPage()
   createOk : BOOLEAN,   \* base(table).create(...)
   updateOk : BOOLEAN,   \* base(table).update(...)
   notifyOk : BOOLEAN,   \* the send to a third party
   replyOk : BOOLEAN,    \* the send to the sender
   indexOk : BOOLEAN,    \* redis.sAdd / redis.sRem on joinrequests:pending:<phone>
   completion : Completions,
   oldestFirst : BOOLEAN] \* the order of the records a select without
                          \* sort, or SMEMBERS, returns

\* the runs considered: at most MaxFaults kinds of call fail in one run
FaultyEnvs ==
  {env \in AllEnvs :
     Cardinality({f \in {"lookupOk", "createOk", "updateOk", "notifyOk",
                         "replyOk", "indexOk"} : ~env[f]})
       + (IF env.completion = "ok" THEN 0 ELSE 1) <= MaxFaults}

\* part_002, api/index.js and part_003:574-1481 list no join requests, and
\* their callGroqLlama answers every failure of the completion with the same
\* apology: there one failing completion, "network", stands for the four.
\* Only part_003:1-571 keeps a set of pending requests.
Envs ==
  {env \in FaultyEnvs :
     /\ impl # "redis" => env.indexOk
     /\ impl \in {"legacy", "api", "gate"} =>
          env.oldestFirst /\ env.completion \in {"ok", "network"}}

NoFault ==
  [lookupOk |-> TRUE, createOk |-> TRUE, updateOk |-> TRUE, notifyOk |-> TRUE,
   replyOk |-> TRUE, indexOk |-> TRUE, completion |-> "ok",
   oldestFirst |-> TRUE]

----------------------------------------------------------------------------
(* Session store *)

NoAction ==
  [type |-> "none", amount |-> 0, name |-> <<>>, groupName |-> <<>>,
   timestamp |-> 0, expiresAt |-> 0]

\* a proposal that lives ten minutes
setPendingAction_TenMinutes(pa, phoneNumber, action) ==
  [pa EXCEPT ![phoneNumber] =
     [type |-> action.type, amount |-> action.amount, name |-> action.name,
      groupName |-> action.groupName, timestamp |-> now,
      expiresAt |-> now + PendingTTL10]]

\* { ...action, timestamp: Date.now(), expiresAt: Date.now() + 5 * 60 * 1000 }
setPendingAction(pa, phoneNumber, action) ==
  [pa EXCEPT ![phoneNumber] =
     [type |-> action.type, amount |-> action.amount, name |-> action.name,
      groupName |-> action.groupName, timestamp |-> now,
      expiresAt |-> now + PendingTTL]]

\* a read that deletes the entry whether it has expired or not
getPendingActionStore_DeleteOnRead(pa, phoneNumber) ==
  [pa EXCEPT ![phoneNumber] = NoAction]

\* the Map after getPendingAction: an expired entry is deleted
getPendingActionStore(pa, phoneNumber) ==
  IF pa[phoneNumber].type # "none" /\ now > pa[phoneNumber].expiresAt
    THEN [pa EXCEPT ![phoneNumber] = NoAction]
    ELSE pa

\* a read that never looks at expiresAt
getPendingAction_IgnoreExpiry(pa, phoneNumber) == pa[phoneNumber]

\* what getPendingAction returns (NoAction: null)
getPendingAction(pa, phoneNumber) == getPendingActionStore(pa, phoneNumber)[phoneNumber]

clearPendingAction_Everyone(pa, phoneNumber) == [p \in DOMAIN pa |-> NoAction]

clearPendingAction(pa, phoneNumber) == [pa EXCEPT ![phoneNumber] = NoAction]

----------------------------------------------------------------------------
(* Record store *)

\* records[0] of a select: the first matching record, 0 when none matches
FirstIndex(matches) ==
  IF matches = {} THEN 0 ELSE Min(matches)

\* index of the member record, 0 for null (also when the lookup throws)
getMemberByPhone(ms, phoneNumber, env) ==
  IF env.lookupOk
    THEN FirstIndex({i \in 1..Len(ms) : ms[i].phone = phoneNumber})
    ELSE 0

\* [members, id]: the table afterwards and the record returned (0: null)
createOrUpdateMember(ms, phoneNumber, name, env) ==
  LET member == getMemberByPhone(ms, phoneNumber, env)
  IN  IF member # 0 THEN [members |-> ms, id |-> member]
      ELSE IF env.createOk
        THEN [members |-> Append(ms, [phone |-> phoneNumber, name |-> name,
                                      leader |-> NoPhone, group |-> <<>>]),
              id |-> Len(ms) + 1]
      ELSE [members |-> ms, id |-> 0]

\* part_003: the name is written whatever the current name is
\* [members, ok]
updateMemberName(ms, phoneNumber, newName, env) ==
  LET member == getMemberByPhone(ms, phoneNumber, env)
  IN  IF member = 0 \/ ~env.updateOk THEN [members |-> ms, ok |-> FALSE]
      ELSE [members |-> [ms EXCEPT ![member].name = newName], ok |-> TRUE]

\* api/index.js and part_002: only a placeholder name is replaced
updateMemberNameApi(ms, phoneNumber, newName, env) ==
  LET member == getMemberByPhone(ms, phoneNumber, env)
  IN  IF /\ member # 0
         /\ ms[member].name \in {<<"Unknown">>, <<phoneNumber>>}
         /\ env.updateOk
        THEN [members |-> [ms EXCEPT ![member].name = newName], ok |-> TRUE]
        ELSE [members |-> ms, ok |-> FALSE]

\* [contributions, ok]
recordContribution(cs, ms, phoneNumber, amount, env) ==
  LET member == getMemberByPhone(ms, phoneNumber, env)
  IN  IF member = 0 \/ ~env.createOk THEN [contributions |-> cs, ok |-> FALSE]
      ELSE [contributions |->
              Append(cs, [member |-> phoneNumber, amount |-> amount]),
            ok |-> TRUE]

getGroupByLeaderPhone(gs, phoneNumber, env) ==
  IF env.lookupOk
    THEN FirstIndex({i \in 1..Len(gs) : gs[i].leader = phoneNumber})
    ELSE 0

getGroupByName(gs, name, env) ==
  IF env.lookupOk
    THEN FirstIndex({i \in 1..Len(gs) : gs[i].name = name})
    ELSE 0

\* [groups, id]: the existing group of the leader, or a new one (0: null)
createGroup(gs, name, leaderPhone, env) ==
  LET existing == getGroupByLeaderPhone(gs, leaderPhone, env)
  IN  IF existing # 0 THEN [groups |-> gs, id |-> existing]
      ELSE IF env.createOk
        THEN [groups |-> Append(gs, [name |-> name, leader |-> leaderPhone]),
              id |-> Len(gs) + 1]
      ELSE [groups |-> gs, id |-> 0]

assignMemberToGroup(ms, memberRecord, groupRecord, env) ==
  IF memberRecord = 0 \/ ~env.updateOk THEN ms
  ELSE [ms EXCEPT ![memberRecord].group = groupRecord.name,
                  ![memberRecord].leader = groupRecord.leader]

\* [pendingPayments, id]
createPendingPayment(pps, memberPhone, leaderPhone, amount, env) ==
  IF ~env.createOk THEN [pendingPayments |-> pps, id |-> 0]
  ELSE [pendingPayments |->
          Append(pps, [member |-> memberPhone, leader |-> leaderPhone,
                       amount |-> amount, status |-> "Awaiting Leader"]),
        id |-> Len(pps) + 1]

approvePendingPayment(pps, pendingId, env) ==
  IF env.updateOk THEN [pps EXCEPT ![pendingId].status = "Approved"] ELSE pps

\* [pendingPayments, ok]
rejectPendingPayment(pps, pendingId, env) ==
  IF env.updateOk
    THEN [pendingPayments |-> [pps EXCEPT ![pendingId].status = "Rejected"],
          ok |-> TRUE]
    ELSE [pendingPayments |-> pps, ok |-> FALSE]

----------------------------------------------------------------------------
(* One run of app.post('/webhook') *)

Msg(to, kind, ref) == [to |-> to, kind |-> kind, ref |-> ref]

\* one entry of the message window
Turn(role, content) == [role |-> role, content |-> content]

\* out.hist: the turns the run appends to the sender's message window
Result(pa, ms, gs, pps, cs, status, sent) ==
  [pa |-> pa, members |-> ms, groups |-> gs, pendingPayments |-> pps,
   contributions |-> cs,
   out |-> [status |-> status, sent |-> sent, hist |-> <<>>]]

\* the webhook runs that can be in flight at the same time
Handlers == {1, 2}

\* a handler that is not running
NoHandler ==
  [pc |-> "idle", from |-> NoPhone, text |-> <<>>, pendingAction |-> NoAction,
   leaderPhone |-> NoPhone, id |-> 0, kind |-> "none", sent |-> {}]

\* no message handled yet
NoRun ==
  [from |-> NoPhone, text |-> <<>>, status |-> 0, sent |-> {}, hist |-> <<>>]

\* addToConversationHistory(from, 'user', messageBody) and
\* addToConversationHistory(from, 'assistant', aiResponse), both before the
\* reply is sent
Remembered(r, text, reply) ==
  [r EXCEPT !.out.hist = <<Turn("user", text), Turn("assistant", reply)>>]

\* the replies that come from the completion call
AiReplies == {"ai", "apology"}

\* what callGroqLlama returns (part_003:1165-1204, api/index.js:282-408,
\* part_002:207-314): the whole body is inside try/catch
GroqReply(completion) ==
  IF completion = "ok" THEN "ai" ELSE "apology"

\* what aiReply returns (part_003:285-312, part_004:231-258): [reply, thrown].
\* No try/catch: a rejected fetch() and a rejected r.json() leave the
\* function as exceptions
aiReplyReturn(completion) ==
  CASE completion = "ok" -> [reply |-> "ai", thrown |-> FALSE]
    [] completion \in {"status", "no_choices"} ->
         [reply |-> "apology", thrown |-> FALSE]
    [] OTHER -> [reply |-> "none", thrown |-> TRUE]

\* await sendWhatsAppMessage(from, reply) as the last call before the answer:
\* a failed send throws into the handler's catch, which answers 500
ReplyAndAnswer(pa, ms, gs, pps, cs, from, kind, sentBefore, env) ==
  IF env.replyOk
    THEN Result(pa, ms, gs, pps, cs, 200, sentBefore \cup {Msg(from, kind, 0)})
    ELSE Result(pa, ms, gs, pps, cs, 500, sentBefore)

\* part_003:1280-1324
GateLeaderConfirm(pa, ms, from, pendingId, env) ==
  LET gs == groups
      pps == pendingPayments
      cs == contributions
  IN  IF ~env.lookupOk THEN Result(pa, ms, gs, pps, cs, 500, {})
      ELSE IF pendingId \notin 1..Len(pps)
        THEN ReplyAndAnswer(pa, ms, gs, pps, cs, from, "pp_not_found", {}, env)
      ELSE IF pps[pendingId].status # "Awaiting Leader"
        THEN ReplyAndAnswer(pa, ms, gs, pps, cs, from, "pp_already", {}, env)
      ELSE
        LET memberPhone == pps[pendingId].member
            rec == recordContribution(cs, ms, memberPhone, pps[pendingId].amount, env)
        IN  IF ~rec.ok
              THEN ReplyAndAnswer(pa, ms, gs, pps, rec.contributions, from,
                                  "contribution_error", {}, env)
            ELSE
              LET pps2 == approvePendingPayment(pps, pendingId, env)
              IN  IF ~env.replyOk
                    THEN Result(pa, ms, gs, pps2, rec.contributions, 500, {})
                  ELSE IF ~env.notifyOk
                    THEN Result(pa, ms, gs, pps2, rec.contributions, 500,
                                {Msg(from, "contribution_recorded", 0)})
                  ELSE Result(pa, ms, gs, pps2, rec.contributions, 200,
                              {Msg(from, "contribution_recorded", 0),
                               Msg(memberPhone, "leader_confirmed", 0)})

\* part_003:1326-1363
GateLeaderReject(pa, ms, from, pendingId, env) ==
  LET gs == groups
      pps == pendingPayments
      cs == contributions
  IN  IF ~env.lookupOk THEN Result(pa, ms, gs, pps, cs, 500, {})
      ELSE IF pendingId \notin 1..Len(pps)
        THEN ReplyAndAnswer(pa, ms, gs, pps, cs, from, "pp_not_found", {}, env)
      ELSE IF pps[pendingId].status # "Awaiting Leader"
        THEN ReplyAndAnswer(pa, ms, gs, pps, cs, from, "pp_already", {}, env)
      ELSE
        LET rej == rejectPendingPayment(pps, pendingId, env)
            memberPhone == pps[pendingId].member
        IN  IF ~rej.ok THEN Result(pa, ms, gs, pps, cs, 200, {})
            ELSE IF ~env.replyOk
              THEN Result(pa, ms, gs, rej.pendingPayments, cs, 500, {})
            ELSE IF ~env.notifyOk
              THEN Result(pa, ms, gs, rej.pendingPayments, cs, 500,
                          {Msg(from, "payment_rejected", 0)})
            ELSE Result(pa, ms, gs, rej.pendingPayments, cs, 200,
                        {Msg(from, "payment_rejected", 0),
                         Msg(memberPhone, "leader_rejected", 0)})

\* part_003:1367-1425, pendingAction.type === 'payment'
GateExecutePayment(pa, ms, from, pendingAction, env) ==
  LET gs == groups
      pps == pendingPayments
      cs == contributions
      member == getMemberByPhone(ms, from, env)
      leaderPhone == IF member = 0 THEN NoPhone ELSE ms[member].leader
  IN  IF leaderPhone = NoPhone
        THEN ReplyAndAnswer(clearPendingAction(pa, from), ms, gs, pps, cs,
                            from, "not_linked", {}, env)
      ELSE
        LET created == createPendingPayment(pps, from, leaderPhone,
                                            pendingAction.amount, env)
        IN  IF created.id = 0
              THEN ReplyAndAnswer(clearPendingAction(pa, from), ms, gs, pps, cs,
                                  from, "pp_create_failed", {}, env)
            ELSE IF ~env.notifyOk
              \* the send to the leader throws before clearPendingAction
              THEN Result(pa, ms, gs, created.pendingPayments, cs, 500, {})
            ELSE ReplyAndAnswer(clearPendingAction(pa, from), ms, gs,
                                created.pendingPayments, cs, from,
                                "payment_pending",
                                {Msg(leaderPhone, "confirm_request", created.id)},
                                env)

\* part_003:1395-1401
GateExecuteNameUpdate(pa, ms, from, pendingAction, env) ==
  LET upd == updateMemberName(ms, from, pendingAction.name, env)
  IN  ReplyAndAnswer(clearPendingAction(pa, from), upd.members, groups,
                     pendingPayments, contributions, from,
                     IF upd.ok THEN "name_updated" ELSE "name_failed", {}, env)

\* part_003:1402-1409
GateExecuteCreateGroup(pa, ms, memberRecord, from, pendingAction, env) ==
  LET made == createGroup(groups, pendingAction.groupName, from, env)
  IN  IF made.id = 0
        THEN ReplyAndAnswer(clearPendingAction(pa, from), ms, groups,
                            pendingPayments, contributions, from,
                            "group_failed", {}, env)
        ELSE ReplyAndAnswer(clearPendingAction(pa, from),
                            assignMemberToGroup(ms, memberRecord,
                                                made.groups[made.id], env),
                            made.groups, pendingPayments, contributions, from,
                            "group_created", {}, env)

\* part_003:1410-1418
GateExecuteJoinGroup(pa, ms, memberRecord, from, pendingAction, env) ==
  LET group == getGroupByName(groups, pendingAction.groupName, env)
  IN  IF group # 0 /\ memberRecord # 0
        THEN ReplyAndAnswer(clearPendingAction(pa, from),
                            assignMemberToGroup(ms, memberRecord, groups[group], env),
                            groups, pendingPayments, contributions, from,
                            "joined", {}, env)
        ELSE ReplyAndAnswer(clearPendingAction(pa, from), ms, groups,
                            pendingPayments, contributions, from,
                            "group_not_found", {}, env)

ProposableTypes == {"payment", "name_update", "create_group", "join_group"}

\* a proposal that replaces the one in place
GateProposePending_Overwrite(pa, from, intent, pendingAction) ==
  IF intent.type \in ProposableTypes
    THEN setPendingAction(pa, from, intent)
    ELSE pa

\* part_003:1429-1438: if (intent && !pendingAction) { ... setPendingAction }
GateProposePending(pa, from, intent, pendingAction) ==
  IF /\ intent.type # "none"
     /\ pendingAction.type = "none"
     /\ intent.type \in ProposableTypes
    THEN setPendingAction(pa, from, intent)
    ELSE pa

\* api/index.js:555-560: if (intent && !pendingAction) setPendingAction
ApiProposePending(pa, from, intent, pendingAction) ==
  IF intent.type # "none" /\ pendingAction.type = "none"
    THEN setPendingAction(pa, from, intent)
    ELSE pa

\* part_003:1249-1477
GateRun(from, text, senderName, env) ==
  LET ensured == createOrUpdateMember(members, from, senderName, env)
      ms == ensured.members
      memberRecord == ensured.id
      intent == detectIntent(text)
      pa == getPendingActionStore(pendingActions, from)
      pendingAction == getPendingAction(pendingActions, from)
  IN  IF intent.type = "leader_confirm_payment"
        THEN GateLeaderConfirm(pa, ms, from, intent.pendingId, env)
      ELSE IF intent.type = "leader_reject_payment"
        THEN GateLeaderReject(pa, ms, from, intent.pendingId, env)
      ELSE IF pendingAction.type # "none" /\ isConfirmation(text)
        THEN CASE pendingAction.type = "payment" ->
                    GateExecutePayment(pa, ms, from, pendingAction, env)
               [] pendingAction.type = "name_update" ->
                    GateExecuteNameUpdate(pa, ms, from, pendingAction, env)
               [] pendingAction.type = "create_group" ->
                    GateExecuteCreateGroup(pa, ms, memberRecord, from, pendingAction, env)
               [] pendingAction.type = "join_group" ->
                    GateExecuteJoinGroup(pa, ms, memberRecord, from, pendingAction, env)
      ELSE
        LET pa2 == GateProposePending(pa, from, intent, pendingAction)
        IN  Remembered(ReplyAndAnswer(pa2, ms, groups, pendingPayments,
                                      contributions, from,
                                      GroqReply(env.completion), {}, env),
                       text, GroqReply(env.completion))

\* api/index.js:452-590
ApiRun(from, text, senderName, env) ==
  LET pa == getPendingActionStore(pendingActions, from)
      pendingAction == getPendingAction(pendingActions, from)
  IN  IF pendingAction.type # "none" /\ isConfirmation(text)
        THEN IF pendingAction.type = "payment"
               THEN LET rec == recordContribution(contributions, members, from,
                                                  pendingAction.amount, env)
                    IN  ReplyAndAnswer(clearPendingAction(pa, from), members,
                                       groups, pendingPayments, rec.contributions,
                                       from,
                                       IF rec.ok THEN "payment_saved"
                                                 ELSE "payment_error", {}, env)
               ELSE LET upd == updateMemberNameApi(members, from,
                                                   pendingAction.name, env)
                    IN  ReplyAndAnswer(clearPendingAction(pa, from), upd.members,
                                       groups, pendingPayments, contributions,
                                       from,
                                       IF upd.ok THEN "name_updated"
                                                 ELSE "name_failed", {}, env)
      ELSE
        LET ensured == createOrUpdateMember(members, from, senderName, env)
            intent == detectIntentApi(text)
            pa2 == ApiProposePending(pa, from, intent, pendingAction)
        IN  Remembered(ReplyAndAnswer(pa2, ensured.members, groups,
                                      pendingPayments, contributions, from,
                                      GroqReply(env.completion), {}, env),
                       text, GroqReply(env.completion))

\* part_002:173-204
extractAndSaveData(cs, ms, phoneNumber, text, env) ==
  LET amount == LegacyAmount(text)
      rec == IF amount > 0
               THEN recordContribution(cs, ms, phoneNumber, amount, env)
               ELSE [contributions |-> cs, ok |-> FALSE]
      name == ExtractName(text, FALSE)
      upd == IF name # <<>>
               THEN updateMemberNameApi(ms, phoneNumber, name, env)
               ELSE [members |-> ms, ok |-> FALSE]
  IN  [contributions |-> rec.contributions, members |-> upd.members]

\* part_002:359-444
LegacyRun(from, text, senderName, env) ==
  LET ensured == createOrUpdateMember(members, from, senderName, env)
      saved == extractAndSaveData(contributions, ensured.members, from, text, env)
  IN  IF ~env.replyOk
        THEN Remembered(Result(pendingActions, ensured.members, groups,
                               pendingPayments, contributions, 500, {}),
                        text, GroqReply(env.completion))
        ELSE Remembered(Result(pendingActions, saved.members, groups,
                               pendingPayments, saved.contributions, 200,
                               {Msg(from, GroqReply(env.completion), 0)}),
                        text, GroqReply(env.completion))

----------------------------------------------------------------------------
(* The step-by-step forms: part_003:1-571 ("redis"), part_004:1-706        *)
(* ("wizard").  Both keep userState and memory in the process and differ   *)
(* in the record store and in which store calls are wrapped in safe().     *)

FormImpls == {"redis", "wizard"}

TCreateGroup == <<"create", "group">>
TInviteStranger == <<"add", "+p3", "to", "savers">>
TSavers == <<"savers">>
TDescription == <<"for", "monthly", "savings">>
TWeekly == <<"weekly">>

\* contacts[0].profile.name of the deliveries
ProfileNames == {<<"tj">>}

\* the date of the deliveries
CurrentDate == <<"2025-01-05">>

\* new Date().toISOString(): the date, the letter T, the time of day
todayISO == CurrentDate \o <<"T", "10:00:00.000Z">>

\* s.split('T')[0]
SplitT(s) ==
  IF \E i \in 1..Len(s) : s[i] = "T"
    THEN SubSeq(s, 1, Min({i \in 1..Len(s) : s[i] = "T"}) - 1)
    ELSE s

\* inviteMatch[1].replace(/\D/g, ''): the digits of +<phone>
PhoneDigits(tok) ==
  CASE tok = "+p1" -> "p1"
    [] tok = "+p2" -> "p2"
    [] tok = "+p3" -> "p3"
    [] OTHER -> tok

\* /^add\s+(\+?\d{10,15})\s+(?:to|into)\s+(.+)$/i
inviteMatch(text) ==
  /\ Len(text) >= 4
  /\ text[1] = "add"
  /\ PhoneDigits(text[2]) \in Phones \cup {"p3"}
  /\ text[3] \in {"to", "into"}

\* userState.get(phone) || {}
NoState == [mode |-> "none", data |-> <<>>]

\* state.data.<field> = value
SetField(data, field, value) ==
  [f \in DOMAIN data \cup {field} |-> IF f = field THEN value ELSE data[f]]

\* data.<field>, undefined read as the empty string
Field(data, field) == IF field \in DOMAIN data THEN data[field] ELSE <<>>

FormSteps ==
  <<"create_group_name", "create_group_description", "create_group_start_date",
    "create_group_end_date", "create_group_reminder">>

FormFields == <<"name", "description", "startDate", "endDate", "reminderFrequency">>

StepIndex(mode) ==
  IF \E i \in 1..Len(FormSteps) : FormSteps[i] = mode
    THEN CHOOSE i \in 1..Len(FormSteps) : FormSteps[i] = mode
    ELSE 0

\* the value a step stores for the text it receives
FieldValue(mode, text) ==
  CASE mode = "create_group_start_date" ->
         IF toLowerCase(text) = <<"today">> THEN todayISO ELSE text
    [] mode = "create_group_end_date" ->
         IF toLowerCase(text) \in {<<"none">>, <<"no">>} THEN <<>> ELSE text
    [] OTHER -> text

\* state.mode = '<the step after this one>'
NextMode_SkipToReminder(mode) ==
  IF mode = "create_group_name" THEN "create_group_reminder"
  ELSE FormSteps[StepIndex(mode) + 1]

NextMode(mode) == FormSteps[StepIndex(mode) + 1]

\* one of the first four steps: store the field, move to the next step
FormStep_KeepNothing(state, text) ==
  [mode |-> NextMode(state.mode), data |-> state.data]

FormStep(state, text) ==
  [mode |-> NextMode(state.mode),
   data |-> SetField(state.data, FormFields[StepIndex(state.mode)],
                     FieldValue(state.mode, text))]

\* ---- record store of the form revisions ----

\* index of the member record, 0 for null; safe() turns a failed read into null
getMember(ms, phone, env) ==
  IF env.lookupOk
    THEN FirstIndex({i \in 1..Len(ms) : ms[i].phone = phone})
    ELSE 0

NewMember(phone, name) ==
  [phone |-> phone, name |-> IF name = <<>> THEN <<"Unknown">> ELSE name,
   group |-> 0]

\* [members, sender, thrown]; sender 0 is null.
\* part_004: the create is wrapped in safe(), a failure returns null.
\* part_003: hSet member:<phone> throws on failure and otherwise overwrites
\* whatever the key held.
ensureMember(ms, phone, name, env) ==
  LET m == getMember(ms, phone, env)
      at == FirstIndex({i \in 1..Len(ms) : ms[i].phone = phone})
  IN  IF m # 0 THEN [members |-> ms, sender |-> m, thrown |-> FALSE]
      ELSE IF ~env.createOk
        THEN [members |-> ms, sender |-> 0, thrown |-> impl = "redis"]
      ELSE IF impl = "redis" /\ at # 0
        THEN [members |-> [ms EXCEPT ![at] = NewMember(phone, name)],
              sender |-> at, thrown |-> FALSE]
      ELSE [members |-> Append(ms, NewMember(phone, name)),
            sender |-> Len(ms) + 1, thrown |-> FALSE]

\* safe(update): a failed write changes nothing and is not reported
setPreferredName(ms, sender, preferredName, env) ==
  IF sender # 0 /\ env.updateOk
    THEN [ms EXCEPT ![sender].name = preferredName]
    ELSE ms

\* part_003: groups:by_name:<name> holds the last group created under the
\* name; part_004: the first record the select returns
FormGroupByName(gs, name, env) ==
  LET named == {i \in 1..Len(gs) : gs[i].name = name}
  IN  IF ~env.lookupOk \/ named = {} THEN 0
      ELSE IF impl = "redis" THEN CHOOSE i \in named : \A j \in named : j <= i
      ELSE Min(named)

\* the record createGroupWithLeader writes
GroupFields_AlwaysWeekly(data, leaderPhone) ==
  [name |-> Field(data, "name"),
   leader |-> leaderPhone,
   description |-> Field(data, "description"),
   startDate |-> IF Field(data, "startDate") # <<>>
                   THEN SplitT(Field(data, "startDate"))
                   ELSE SplitT(todayISO),
   endDate |-> IF Field(data, "endDate") # <<>>
                 THEN SplitT(Field(data, "endDate"))
                 ELSE <<>>,
   reminderFrequency |-> <<"Weekly">>]

GroupFields(data, leaderPhone) ==
  [name |-> Field(data, "name"),
   leader |-> leaderPhone,
   description |-> Field(data, "description"),
   startDate |-> IF Field(data, "startDate") # <<>>
                   THEN SplitT(Field(data, "startDate"))
                   ELSE SplitT(todayISO),
   endDate |-> IF Field(data, "endDate") # <<>>
                 THEN SplitT(Field(data, "endDate"))
                 ELSE <<>>,
   reminderFrequency |-> IF Field(data, "reminderFrequency") # <<>>
                           THEN Field(data, "reminderFrequency")
                           ELSE <<"Weekly">>]

\* [groups, id, thrown]: a failed write is rethrown to the caller
createGroupWithLeader(gs, data, leaderPhone, env) ==
  IF env.createOk
    THEN [groups |-> Append(gs, GroupFields(data, leaderPhone)),
          id |-> Len(gs) + 1, thrown |-> FALSE]
    ELSE [groups |-> gs, id |-> 0, thrown |-> TRUE]

\* ---- one run of app.post('/webhook') of the form revisions ----

\* every run answers 200; caught: the run ended in the handler's catch
FormResult(us, ms, gs, jrs, sent, hist, caught) ==
  [userState |-> us, members |-> ms, groups |-> gs, joinRequests |-> jrs,
   out |-> [status |-> 200, sent |-> sent, hist |-> hist, caught |-> caught]]

\* rememberInRuntime(phone, 'assistant', reply); await sendWhatsApp(phone,
\* reply); await saveConversation(phone, text, reply) -- the last one inside
\* safe() in part_004, bare in part_003
FormReply(us, ms, gs, jrs, phone, text, kind, env) ==
  LET hist == <<Turn("user", text), Turn("assistant", kind)>>
  IN  IF ~env.replyOk THEN FormResult(us, ms, gs, jrs, {}, hist, TRUE)
      ELSE FormResult(us, ms, gs, jrs, {Msg(phone, kind, 0)}, hist,
                      impl = "redis" /\ ~env.createOk)

\* a reply of the invite and approval handlers: sent, not remembered
PlainReply(us, ms, gs, jrs, phone, text, kind, env) ==
  IF env.replyOk
    THEN FormResult(us, ms, gs, jrs, {Msg(phone, kind, 0)},
                    <<Turn("user", text)>>, FALSE)
    ELSE FormResult(us, ms, gs, jrs, {}, <<Turn("user", text)>>, TRUE)

\* the throw of an await that is not wrapped: nothing more is sent
Thrown(us, ms, gs, jrs, text, sent) ==
  FormResult(us, ms, gs, jrs, sent, <<Turn("user", text)>>, TRUE)

\* state.mode === 'ask_name'
AskName(us, ms, gs, jrs, phone, sender, text, env) ==
  IF impl = "wizard" /\ sender = 0
    THEN Thrown(us, ms, gs, jrs, text, {})
    ELSE FormReply([us EXCEPT ![phone] = NoState],
                   setPreferredName(ms, sender, text, env), gs, jrs,
                   phone, text, "name_set", env)

\* state.mode === 'create_group_reminder'
FinishGroup_StuckOnError(us, ms, gs, jrs, phone, sender, text, env) ==
  LET data == SetField(us[phone].data, "reminderFrequency", text)
      created == createGroupWithLeader(gs, data, phone, env)
      reset == [us EXCEPT ![phone] = NoState]
  IN  IF created.thrown
        THEN FormReply(us, ms, gs, jrs, phone, text, "group_error", env)
      ELSE IF impl = "redis" /\ ~env.updateOk
        THEN FormReply(reset, ms, created.groups, jrs, phone, text,
                       "group_error", env)
      ELSE FormReply(reset,
                     IF sender # 0 /\ env.updateOk
                       THEN [ms EXCEPT ![sender].group = created.id]
                       ELSE ms,
                     created.groups, jrs, phone, text, "group_created", env)

FinishGroup(us, ms, gs, jrs, phone, sender, text, env) ==
  LET data == SetField(us[phone].data, "reminderFrequency", text)
      created == createGroupWithLeader(gs, data, phone, env)
      reset == [us EXCEPT ![phone] = NoState]
  IN  IF created.thrown
        THEN FormReply(reset, ms, gs, jrs, phone, text, "group_error", env)
      ELSE IF impl = "redis" /\ ~env.updateOk
        \* part_003: the bare hSet of the leader's groupId throws into the
        \* same catch, after the group was written
        THEN FormReply(reset, ms, created.groups, jrs, phone, text,
                       "group_error", env)
      ELSE FormReply(reset,
                     IF sender # 0 /\ env.updateOk
                       THEN [ms EXCEPT ![sender].group = created.id]
                       ELSE ms,
                     created.groups, jrs, phone, text, "group_created", env)

\* 'add <phone> to <group>'
InviteIntent_NoMemberCheck(us, ms, gs, jrs, phone, text, env) ==
  LET memberPhone == PhoneDigits(text[2])
      groupName == SubSeq(text, 4, Len(text))
      group == FormGroupByName(gs, groupName, env)
      invited == Append(jrs, [member |-> memberPhone, leader |-> phone,
                              group |-> group, status |-> "Pending",
                              listed |-> env.indexOk])
  IN  IF group = 0
        THEN PlainReply(us, ms, gs, jrs, phone, text, "group_not_found", env)
      ELSE IF gs[group].leader # phone
        THEN PlainReply(us, ms, gs, jrs, phone, text, "not_leader", env)
      ELSE IF ~env.createOk THEN Thrown(us, ms, gs, jrs, text, {})
      ELSE IF ~env.indexOk THEN Thrown(us, ms, gs, invited, text, {})
      ELSE IF ~env.notifyOk THEN Thrown(us, ms, gs, invited, text, {})
      ELSE IF ~env.replyOk
        THEN Thrown(us, ms, gs, invited, text, {Msg(memberPhone, "invited", 0)})
      ELSE FormResult(us, ms, gs, invited,
                      {Msg(memberPhone, "invited", 0),
                       Msg(phone, "invitation_sent", 0)},
                      <<Turn("user", text)>>, FALSE)

InviteIntent(us, ms, gs, jrs, phone, text, env) ==
  LET memberPhone == PhoneDigits(text[2])
      groupName == SubSeq(text, 4, Len(text))
      group == FormGroupByName(gs, groupName, env)
      invited == Append(jrs, [member |-> memberPhone, leader |-> phone,
                              group |-> group, status |-> "Pending",
                              listed |-> env.indexOk])
  IN  IF group = 0
        THEN PlainReply(us, ms, gs, jrs, phone, text, "group_not_found", env)
      ELSE IF gs[group].leader # phone
        THEN PlainReply(us, ms, gs, jrs, phone, text, "not_leader", env)
      ELSE IF getMember(ms, memberPhone, env) = 0
        THEN PlainReply(us, ms, gs, jrs, phone, text, "member_unknown", env)
      ELSE IF ~env.createOk THEN Thrown(us, ms, gs, jrs, text, {})
      \* part_003:477-485: the hash is written, then sAdd lists the id
      ELSE IF ~env.indexOk THEN Thrown(us, ms, gs, invited, text, {})
      ELSE IF ~env.notifyOk THEN Thrown(us, ms, gs, invited, text, {})
      ELSE IF ~env.replyOk
        THEN Thrown(us, ms, gs, invited, text, {Msg(memberPhone, "invited", 0)})
      ELSE FormResult(us, ms, gs, invited,
                      {Msg(memberPhone, "invited", 0),
                       Msg(phone, "invitation_sent", 0)},
                      <<Turn("user", text)>>, FALSE)

\* /^(yes|no)$/i: the answer to the first pending invitation of the sender
\* that the store returns.  part_004:566-571 selects the requests whose
\* Status is 'Pending'; part_003:499 reads the set joinrequests:pending:
\* <phone>, in which sAdd lists a request (485) and from which sRem takes it
\* (516, 529) after the status is written: `listed` is the membership in
\* that set, and in part_004 it is the status being 'Pending'.
ApprovalHandler(us, ms, gs, jrs, phone, sender, text, env) ==
  LET pending == {i \in 1..Len(jrs) :
                    /\ jrs[i].member = phone
                    /\ IF impl = "redis" THEN jrs[i].listed
                       ELSE jrs[i].status = "Pending"}
  IN  IF ~env.lookupOk THEN Thrown(us, ms, gs, jrs, text, {})
      ELSE IF pending = {}
        THEN PlainReply(us, ms, gs, jrs, phone, text, "no_invitations", env)
      ELSE
        \* reqs[0] / requestIds[0]: the first record the store returns
        LET req == IF env.oldestFirst THEN Min(pending) ELSE Max(pending)
            leader == jrs[req].leader
            yes == toLowerCase(text) = <<"yes">>
            ms2 == IF yes THEN [ms EXCEPT ![sender].group = jrs[req].group]
                   ELSE ms
            jrs2 == [jrs EXCEPT ![req].status =
                                  IF yes THEN "Approved" ELSE "Rejected",
                                ![req].listed = ~env.indexOk]
            toSender == Msg(phone, IF yes THEN "joined" ELSE "declined", 0)
            toLeader == Msg(leader, IF yes THEN "invite_accepted"
                                    ELSE "invite_declined", 0)
        IN  IF ~env.updateOk \/ (yes /\ sender = 0)
              THEN Thrown(us, ms, gs, jrs, text, {})
            ELSE IF ~env.indexOk \/ ~env.replyOk
              THEN Thrown(us, ms2, gs, jrs2, text, {})
            ELSE IF ~env.notifyOk
              THEN Thrown(us, ms2, gs, jrs2, text, {toSender})
            ELSE FormResult(us, ms2, gs, jrs2, {toSender, toLeader},
                            <<Turn("user", text)>>, FALSE)

\* the branch of the handler that takes the message: the if-chain in order
Route_AnswersFirst(mode, text) ==
  IF toLowerCase(text) \in {<<"yes">>, <<"no">>} THEN "approval"
  ELSE IF mode = "ask_name" THEN "ask_name"
  ELSE IF mode = "create_group_reminder" THEN "finish"
  ELSE IF StepIndex(mode) # 0 THEN "step"
  ELSE IF inviteMatch(text) THEN "invite"
  ELSE IF toLowerCase(text) = <<"set", "name">> THEN "set_name"
  ELSE IF toLowerCase(text) = <<"create", "group">> THEN "create_group"
  ELSE "ai"

Route(mode, text) ==
  IF mode = "ask_name" THEN "ask_name"
  ELSE IF mode = "create_group_reminder" THEN "finish"
  ELSE IF StepIndex(mode) # 0 THEN "step"
  ELSE IF inviteMatch(text) THEN "invite"
  ELSE IF toLowerCase(text) \in {<<"yes">>, <<"no">>} THEN "approval"
  ELSE IF toLowerCase(text) = <<"set", "name">> THEN "set_name"
  ELSE IF toLowerCase(text) = <<"create", "group">> THEN "create_group"
  ELSE "ai"

\* [member, group, thrown]: the sender's record and the record of its group,
\* 0 for null.  getMember is wrapped in safe() in both revisions.  part_004:
\* base('Groups').find is wrapped in safe() as well; part_003: redis.hGetAll
\* of the group is awaited bare and its failure leaves snapshot as an
\* exception.  memberOk, groupOk: whether the two reads succeed.
snapshot(ms, phone, memberOk, groupOk) ==
  LET member == getMember(ms, phone, [NoFault EXCEPT !.lookupOk = memberOk])
      linked == member # 0 /\ ms[member].group # 0
  IN  [member |-> member,
       group |-> IF linked /\ groupOk THEN ms[member].group ELSE 0,
       thrown |-> impl = "redis" /\ linked /\ ~groupOk]

\* s: [userState, members, groups, joinRequests] before the run
FormRun(s, phone, text, name, env) ==
  LET ensured == ensureMember(s.members, phone, name, env)
      us == s.userState
      ms == ensured.members
      gs == s.groups
      jrs == s.joinRequests
      sender == ensured.sender
      state == us[phone]
      route == Route(state.mode, text)
  IN  IF ensured.thrown THEN FormResult(us, ms, gs, jrs, {}, <<>>, TRUE)
      ELSE CASE route = "ask_name" ->
                  AskName(us, ms, gs, jrs, phone, sender, text, env)
             [] route = "step" ->
                  FormReply([us EXCEPT ![phone] = FormStep(state, text)],
                            ms, gs, jrs, phone, text, NextMode(state.mode), env)
             [] route = "finish" ->
                  FinishGroup(us, ms, gs, jrs, phone, sender, text, env)
             [] route = "invite" ->
                  InviteIntent(us, ms, gs, jrs, phone, text, env)
             [] route = "approval" ->
                  ApprovalHandler(us, ms, gs, jrs, phone, sender, text, env)
             [] route = "set_name" ->
                  FormReply([us EXCEPT ![phone] =
                               [mode |-> "ask_name", data |-> <<>>]],
                            ms, gs, jrs, phone, text, "ask_name", env)
             [] route = "create_group" ->
                  FormReply([us EXCEPT ![phone] =
                               [mode |-> "create_group_name", data |-> <<>>]],
                            ms, gs, jrs, phone, text, "create_group_name", env)
             [] route = "ai" ->
                  IF snapshot(ms, phone, env.lookupOk, env.lookupOk).thrown
                    THEN Thrown(us, ms, gs, jrs, text, {})
                  \* part_003: redis.keys() of buildConversationHistory is bare
                  ELSE IF impl = "redis" /\ ~env.lookupOk
                    THEN Thrown(us, ms, gs, jrs, text, {})
                  ELSE IF aiReplyReturn(env.completion).thrown
                    THEN Thrown(us, ms, gs, jrs, text, {})
                  ELSE FormReply(us, ms, gs, jrs, phone, text,
                                 aiReplyReturn(env.completion).reply, env)

----------------------------------------------------------------------------
(* The message window, the conversation log and the completion request *)

\* part_003:43-47, part_004:29-33: push, then shift() once over the length
rememberInRuntime_DropNewest(window, r, c) ==
  LET pushed == Append(window, Turn(r, c))
  IN  IF Len(pushed) > RuntimeWindow
        THEN SubSeq(pushed, 1, Len(pushed) - 1)
        ELSE pushed

rememberInRuntime(window, r, c) ==
  LET pushed == Append(window, Turn(r, c))
  IN  IF Len(pushed) > RuntimeWindow THEN Tail(pushed) ELSE pushed

\* part_003:614-621, api/index.js:38-48: push, then splice the front off
addToConversationHistory(history, role, content) ==
  LET pushed == Append(history, Turn(role, content))
  IN  IF Len(pushed) > HistoryWindow
        THEN SubSeq(pushed, Len(pushed) - HistoryWindow + 1, Len(pushed))
        ELSE pushed

\* Array.prototype.slice(-n)
LastOf(s, n) == IF Len(s) > n THEN SubSeq(s, Len(s) - n + 1, Len(s)) ELSE s

\* the last `limit` records of the log, oldest first, each as a user turn
\* followed by an assistant turn
RECURSIVE Flatten(_)
Flatten(records) ==
  IF records = <<>> THEN <<>>
  ELSE <<Turn("user", Head(records).userMessage),
         Turn("assistant", Head(records).botResponse)>> \o Flatten(Tail(records))

buildConversationHistory(records, limit) == Flatten(LastOf(records, limit))

SystemMessage == Turn("system", 0)

\* part_003:1165-1177, api/index.js:365-378
callGroqLlama(history, userMessage) ==
  <<SystemMessage>> \o LastOf(history, RecentTurns) \o <<Turn("user", userMessage)>>

\* part_003:285-294, part_004:231-242; runtimeHistory already holds the
\* message being answered
aiReply(records, runtimeHistory, text) ==
  <<SystemMessage>> \o buildConversationHistory(records, StoredExchanges)
    \o runtimeHistory \o <<Turn("user", text)>>

\* The free-text path of one message from p, followed for what it does to
\* the window, the log and the completion request.  The content of a turn
\* is its arrival number: the k-th turn of p has content k.
FreeText(p) ==
  LET k == 2 * Len(conversations[p]) + 1
      logged == Append(conversations[p],
                       [userMessage |-> k, botResponse |-> k + 1])
  IN  /\ Len(conversations[p]) < MaxExchanges
      /\ IF impl \in FormImpls
           THEN \E heard \in {rememberInRuntime(memory[p], "user", k)} :
                  /\ request' = aiReply(conversations[p], heard, k)
                  /\ memory' = [memory EXCEPT ![p] =
                                  rememberInRuntime(heard, "assistant", k + 1)]
           ELSE /\ request' = callGroqLlama(memory[p], k)
                /\ memory' = [memory EXCEPT ![p] =
                     addToConversationHistory(
                       addToConversationHistory(@, "user", k),
                       "assistant", k + 1)]
      /\ conversations' = [conversations EXCEPT ![p] = logged]
      /\ out' = [NoRun EXCEPT !.from = p, !.status = 200]
      /\ UNCHANGED <<impl, now, pendingActions, members, groups,
                     pendingPayments, contributions, userState, joinRequests,
                     running>>

----------------------------------------------------------------------------
(* Specifications: one program, one initial store, one vocabulary each *)

\* the webhook handler of the deployed revision
Run(from, text, senderName, env) ==
  CASE impl = "gate" -> GateRun(from, text, senderName, env)
    [] impl = "api" -> ApiRun(from, text, senderName, env)
    [] impl = "legacy" -> LegacyRun(from, text, senderName, env)

\* one inbound message, handled from the first line to the HTTP answer
Handle(from, text, senderName, env) ==
  \E r \in {Run(from, text, senderName, env)} :
      /\ Len(r.members) <= MaxMembers
      /\ Len(r.groups) <= MaxGroups
      /\ Len(r.pendingPayments) <= MaxPendingPayments
      /\ Len(r.contributions) <= MaxContributions
      /\ pendingActions' = r.pa
      /\ members' = r.members
      /\ groups' = r.groups
      /\ pendingPayments' = r.pendingPayments
      /\ contributions' = r.contributions
      /\ out' = [from |-> from, text |-> text, status |-> r.out.status,
                 sent |-> r.out.sent, hist |-> r.out.hist]
      /\ UNCHANGED <<impl, now, userState, joinRequests, memory,
                     conversations, request, running>>

\* time passes between two deliveries
Tick ==
  /\ now < MaxTime
  /\ now' = now + 1
  /\ UNCHANGED <<impl, pendingActions, members, groups, pendingPayments,
                 contributions, userState, joinRequests, memory,
                 conversations, request, running, out>>

\* the process has just started: no form is open, no window holds a turn
FreshSession ==
  /\ now = 0
  /\ pendingActions = [p \in Phones |-> NoAction]
  /\ userState = [p \in Phones |-> NoState]
  /\ memory = [p \in Phones |-> <<>>]
  /\ request = <<>>
  /\ running = [h \in Handlers |-> NoHandler]
  /\ out = NoRun

\* the process has just started and the base is empty
EmptyStore ==
  /\ FreshSession
  /\ joinRequests = <<>>
  /\ conversations = [p \in Phones |-> <<>>]
  /\ members = <<>>
  /\ groups = <<>>
  /\ pendingPayments = <<>>
  /\ contributions = <<>>

\* the process has just started on a base in which p2 leads the group
\* 'savers' and p1 has joined it
LinkedStore ==
  /\ FreshSession
  /\ joinRequests = <<>>
  /\ conversations = [p \in Phones |-> <<>>]
  /\ members = <<[phone |-> "p2", name |-> <<"User">>, leader |-> "p2",
                  group |-> <<"savers">>],
                 [phone |-> "p1", name |-> <<"User">>, leader |-> "p2",
                  group |-> <<"savers">>]>>
  /\ groups = <<[name |-> <<"savers">>, leader |-> "p2"]>>
  /\ pendingPayments = <<>>
  /\ contributions = <<>>

SessionTexts == {TYes, THello, TPaid, TName}
\* the identity whose session the session specifications follow
SessionPhones == {"p1"}

\* part_002: every message is mined for amounts and names
InitLegacy == impl = "legacy" /\ EmptyStore

NextLegacy ==
  \E from \in Phones, text \in {THello, TPaid, TName}, senderName \in SenderNames,
     env \in Envs : Handle(from, text, senderName, env)

SpecLegacy == InitLegacy /\ [][NextLegacy]_vars

\* api/index.js: one identity proposes payments and names, confirms them or
\* lets them expire
InitApi == impl = "api" /\ EmptyStore

NextApi ==
  \/ \E from \in SessionPhones, text \in SessionTexts, senderName \in SenderNames,
        env \in Envs : Handle(from, text, senderName, env)
  \/ Tick

SpecApi == InitApi /\ [][NextApi]_vars

\* api/index.js on a base in which p1 has a leader
InitApiPay == impl = "api" /\ LinkedStore

NextApiPay ==
  \E from \in Phones, text \in SessionTexts, senderName \in SenderNames,
     env \in Envs : Handle(from, text, senderName, env)

SpecApiPay == InitApiPay /\ [][NextApiPay]_vars

\* part_003: one identity proposes payments and names, confirms them or lets
\* them expire
InitGate == impl = "gate" /\ EmptyStore

NextGate ==
  \/ \E from \in SessionPhones, text \in SessionTexts, senderName \in SenderNames,
        env \in Envs : Handle(from, text, senderName, env)
  \/ Tick

SpecGate == InitGate /\ [][NextGate]_vars

\* part_003: payments of linked members and the leader's commands
InitGatePay == impl = "gate" /\ LinkedStore

NextGatePay ==
  \E from \in Phones,
     text \in {TYes, TPaid}
               \cup {TConfirmPay(i) : i \in 1..MaxPendingPayments}
               \cup {TRejectPay(i) : i \in 1..MaxPendingPayments},
     senderName \in SenderNames,
     env \in Envs : Handle(from, text, senderName, env)

SpecGatePay == InitGatePay /\ [][NextGatePay]_vars

\* part_003: creating and joining groups, on an empty base
NextGateGroup ==
  \E from \in Phones,
     text \in {TYes, <<"create", "a", "group", "called", "savers">>,
               <<"join", "group", "savers">>},
     senderName \in SenderNames,
     env \in Envs : Handle(from, text, senderName, env)

SpecGateGroup == InitGate /\ [][NextGateGroup]_vars

\* the handler of the deployed form revision on the current state
FormState ==
  [userState |-> userState, members |-> members, groups |-> groups,
   joinRequests |-> joinRequests]

\* one inbound message to a form revision, handled from the first line to
\* the HTTP answer.  The turns the run remembers are reported in out.hist;
\* the window itself is followed under SpecWindow.
Webhook(from, text, name, env) ==
  \E r \in {FormRun(FormState, from, text, name, env)} :
      /\ Len(r.members) <= MaxMembers
      /\ Len(r.groups) <= MaxGroups
      /\ Len(r.joinRequests) <= MaxJoinRequests
      /\ userState' = r.userState
      /\ members' = r.members
      /\ groups' = r.groups
      /\ joinRequests' = r.joinRequests
      /\ out' = [from |-> from, text |-> text, status |-> r.out.status,
                 sent |-> r.out.sent, hist |-> r.out.hist,
                 caught |-> r.out.caught]
      /\ UNCHANGED <<impl, now, pendingActions, pendingPayments,
                     contributions, memory, conversations, request, running>>

\* what a sender writes when the form is at `mode`: the answer the prompt
\* asks for, or a text another branch of the handler would take
Answers(mode) ==
  CASE mode = "none" -> {TCreateGroup, <<"set", "name">>,
                         <<"add", "+p2", "to", "savers">>, TYes, THello}
    [] mode = "ask_name" -> {<<"ada">>, TYes}
    [] mode = "create_group_name" -> {TSavers, TCreateGroup}
    [] mode = "create_group_description" -> {TDescription}
    [] mode = "create_group_start_date" -> {<<"today">>}
    [] mode = "create_group_end_date" -> {<<"none">>, <<"None">>}
    [] mode = "create_group_reminder" -> {TWeekly}

\* one identity fills the forms
NextForms ==
  \E from \in SessionPhones, name \in ProfileNames, env \in Envs :
    \E text \in Answers(userState[from].mode) : Webhook(from, text, name, env)

\* part_004:1-706 on an empty base
InitWizard == impl = "wizard" /\ EmptyStore

SpecWizard == InitWizard /\ [][NextForms]_vars

\* part_003:1-571 on an empty Redis
InitRedis == impl = "redis" /\ EmptyStore

SpecRedis == InitRedis /\ [][NextForms]_vars

\* the process has just started on a base in which p1 leads the group
\* 'savers' and p2 has written to the bot before
InvitingStore ==
  /\ FreshSession
  /\ joinRequests = <<>>
  /\ conversations = [p \in Phones |-> <<>>]
  /\ members = <<[phone |-> "p1", name |-> <<"tj">>, group |-> 1],
                 [phone |-> "p2", name |-> <<"tj">>, group |-> 0]>>
  /\ groups = <<[name |-> TSavers, leader |-> "p1",
                  description |-> TDescription, startDate |-> CurrentDate,
                  endDate |-> <<>>, reminderFrequency |-> TWeekly]>>
  /\ pendingPayments = <<>>
  /\ contributions = <<>>

\* what the leader and the invited member write
InviteAnswers(mode) ==
  CASE mode = "none" -> {<<"add", "+p2", "to", "savers">>, TInviteStranger,
                         <<"add", "+p2", "to", "circle">>,
                         TYes, <<"no">>, <<"set", "name">>}
    [] mode = "ask_name" -> {<<"ada">>, TYes}

\* part_004:1-706: invitations, their answers and the name form
InitInvite == impl = "wizard" /\ InvitingStore

NextInvite ==
  \E from \in Phones, name \in ProfileNames, env \in Envs :
    \E text \in InviteAnswers(userState[from].mode) :
      Webhook(from, text, name, env)

SpecInvite == InitInvite /\ [][NextInvite]_vars

\* part_003:1-571: p1 invites p2, who answers; the model has answered every
\* completion and the set members come oldest first
InitRedisInvite == impl = "redis" /\ InvitingStore

NextRedisInvite ==
  \E from \in Phones,
     text \in {<<"add", "+p2", "to", "savers">>, TYes, <<"no">>},
     env \in {e \in Envs : e.completion = "ok" /\ e.oldestFirst} :
    Webhook(from, text, <<"tj">>, env)

SpecRedisInvite == InitRedisInvite /\ [][NextRedisInvite]_vars

\* ---- part_003:1249-1477 one await at a time ----
\* The runtime runs one handler until its next await; another delivery can be
\* taken up while the first waits for the store or the gateway.  A handler
\* keeps what it read in its local variables across the awaits.

\* the store or the gateway answers the awaited call, or fails it
Answered(ok) ==
  [NoFault EXCEPT !.lookupOk = ok, !.createOk = ok, !.replyOk = ok,
                  !.notifyOk = ok]

\* a delivery is taken up and waits in `await createOrUpdateMember` (1271)
Arrive(h, from, text) ==
  /\ running[h].pc = "idle"
  /\ running' = [running EXCEPT ![h] =
                   [NoHandler EXCEPT !.pc = "ensure", !.from = from,
                                     !.text = text]]
  /\ UNCHANGED <<impl, now, pendingActions, members, groups, pendingPayments,
                 contributions, userState, joinRequests, memory,
                 conversations, request, out>>

\* 1271-1277: the member is there; pendingAction = getPendingAction(from) is
\* read into the handler; a confirmation of a payment goes on to
\* `await getMemberByPhone` (1373), anything else to the free-text reply
ReadPending(h, ok) ==
  /\ running[h].pc = "ensure"
  /\ \E ensured \in {createOrUpdateMember(members, running[h].from,
                                          <<"User">>, Answered(ok))} :
       /\ Len(ensured.members) <= MaxMembers
       /\ members' = ensured.members
  /\ pendingActions' = getPendingActionStore(pendingActions, running[h].from)
  /\ \E pendingAction \in {getPendingAction(pendingActions, running[h].from)} :
       running' = [running EXCEPT ![h] =
         IF pendingAction.type = "payment" /\ isConfirmation(running[h].text)
           THEN [@ EXCEPT !.pc = "lookup", !.pendingAction = pendingAction]
           ELSE [@ EXCEPT !.pc = "reply", !.kind = "ai"]]
  /\ UNCHANGED <<impl, now, groups, pendingPayments, contributions, userState,
                 joinRequests, memory, conversations, request, out>>

\* 1373-1377: the sender's leader; without one the reply is chosen,
\* clearPendingAction runs (1420) and the handler waits in the send (1421)
FindLeader(h, ok) ==
  /\ running[h].pc = "lookup"
  /\ \E member \in {getMemberByPhone(members, running[h].from, Answered(ok))} :
       \E leaderPhone \in {IF member = 0 THEN NoPhone
                            ELSE members[member].leader} :
         IF leaderPhone = NoPhone
           THEN /\ pendingActions' =
                     clearPendingAction(pendingActions, running[h].from)
                /\ running' = [running EXCEPT ![h].pc = "reply",
                                              ![h].kind = "not_linked"]
           ELSE /\ pendingActions' = pendingActions
                /\ running' = [running EXCEPT ![h].pc = "create",
                                              ![h].leaderPhone = leaderPhone]
  /\ UNCHANGED <<impl, now, members, groups, pendingPayments, contributions,
                 userState, joinRequests, memory, conversations, request, out>>

\* 1378-1392: the pending payment is created from the handler's copy of the
\* pending action; then the handler waits in the send to the leader
CreatePending(h, ok) ==
  /\ running[h].pc = "create"
  /\ Len(pendingPayments) <= MaxPendingPayments
  /\ \E created \in {createPendingPayment(pendingPayments, running[h].from,
                                           running[h].leaderPhone,
                                           running[h].pendingAction.amount,
                                           Answered(ok))} :
       IF created.id = 0
         THEN /\ pendingPayments' = pendingPayments
              /\ pendingActions' =
                   clearPendingAction(pendingActions, running[h].from)
              /\ running' = [running EXCEPT ![h].pc = "reply",
                                            ![h].kind = "pp_create_failed"]
         ELSE /\ pendingPayments' = created.pendingPayments
              /\ pendingActions' = pendingActions
              /\ running' = [running EXCEPT ![h].pc = "notify",
                                            ![h].id = created.id]
  /\ UNCHANGED <<impl, now, members, groups, contributions, userState,
                 joinRequests, memory, conversations, request, out>>

\* 1392, 1420: the leader was told and clearPendingAction(from) runs; a
\* failed send throws into the catch (1473-1476) with the action in place
NotifyLeader(h, ok) ==
  /\ running[h].pc = "notify"
  /\ IF ok
       THEN /\ pendingActions' =
                 clearPendingAction(pendingActions, running[h].from)
            /\ running' = [running EXCEPT
                 ![h].pc = "reply", ![h].kind = "payment_pending",
                 ![h].sent = {Msg(running[h].leaderPhone, "confirm_request",
                                  running[h].id)}]
            /\ out' = out
       ELSE /\ pendingActions' = pendingActions
            /\ running' = [running EXCEPT ![h] = NoHandler]
            /\ out' = [from |-> running[h].from, text |-> running[h].text,
                       status |-> 500, sent |-> {}, hist |-> <<>>]
  /\ UNCHANGED <<impl, now, members, groups, pendingPayments, contributions,
                 userState, joinRequests, memory, conversations, request>>

\* 1421-1424, 1460-1472: the reply is sent and the delivery answered
SendReply(h, ok) ==
  /\ running[h].pc = "reply"
  /\ running' = [running EXCEPT ![h] = NoHandler]
  /\ out' = [from |-> running[h].from, text |-> running[h].text,
             status |-> IF ok THEN 200 ELSE 500,
             sent |-> IF ok
                        THEN running[h].sent
                               \cup {Msg(running[h].from, running[h].kind, 0)}
                        ELSE running[h].sent,
             hist |-> IF running[h].kind \in AiReplies
                        THEN <<Turn("user", running[h].text),
                               Turn("assistant", running[h].kind)>>
                        ELSE <<>>]
  /\ UNCHANGED <<impl, now, pendingActions, members, groups, pendingPayments,
                 contributions, userState, joinRequests, memory,
                 conversations, request>>

\* the sender reports one payment, while no handler is running
ReportPayment(from, env) ==
  /\ \A h \in Handlers : running[h].pc = "idle"
  /\ pendingPayments = <<>>
  /\ Handle(from, TPaid, <<"User">>, env)

\* part_003:574-1481: p1 reports a payment and confirms it with messages
\* that arrive close together
NextRace ==
  \/ \E env \in Envs : ReportPayment("p1", env)
  \/ \E h \in Handlers : Arrive(h, "p1", TYes)
  \/ \E h \in Handlers, ok \in BOOLEAN : ReadPending(h, ok)
  \/ \E h \in Handlers, ok \in BOOLEAN : FindLeader(h, ok)
  \/ \E h \in Handlers, ok \in BOOLEAN : CreatePending(h, ok)
  \/ \E h \in Handlers, ok \in BOOLEAN : NotifyLeader(h, ok)
  \/ \E h \in Handlers, ok \in BOOLEAN : SendReply(h, ok)

SpecRace == InitGatePay /\ [][NextRace]_vars

\* a delivery that carries no text (an image, a sticker, a location) or an
\* empty body: text = (msg.text?.body || '').trim() is the empty string and
\* the handler goes on with it (part_003:330-338, part_004:275-284)
Media(from, name, env) == Webhook(from, <<>>, name, env)

\* the texts that open a form and answer its first prompt
MediaAnswers(mode) ==
  CASE mode = "none" -> {TCreateGroup, <<"set", "name">>}
    [] mode = "create_group_name" -> {TSavers}
    [] OTHER -> {}

\* part_004:1-706: one identity opens the forms and sends pictures
NextMedia ==
  \/ \E from \in SessionPhones, name \in ProfileNames, env \in Envs :
       Media(from, name, env)
  \/ \E from \in SessionPhones, name \in ProfileNames, env \in Envs :
       \E text \in MediaAnswers(userState[from].mode) :
         Webhook(from, text, name, env)

SpecMedia == InitWizard /\ [][NextMedia]_vars

\* two identities write at the same time: payments reported and confirmed one
\* await at a time (part_003:574-1481; one handler takes the confirmations
\* of p1, the other those of p2), forms opened (part_004:1-706), and the
\* first free-text exchange of each identity in either revision
InitSessions ==
  \/ impl = "gate" /\ LinkedStore
  \/ impl = "wizard" /\ EmptyStore

NextSessions ==
  \/ \E from \in Phones, env \in Envs :
       impl = "gate" /\ ReportPayment(from, env)
  \/ \E h \in Handlers :
       impl = "gate" /\ Arrive(h, IF h = 1 THEN "p1" ELSE "p2", TYes)
  \/ \E h \in Handlers, ok \in BOOLEAN : ReadPending(h, ok)
  \/ \E h \in Handlers, ok \in BOOLEAN : FindLeader(h, ok)
  \/ \E h \in Handlers, ok \in BOOLEAN : CreatePending(h, ok)
  \/ \E h \in Handlers, ok \in BOOLEAN : NotifyLeader(h, ok)
  \/ \E h \in Handlers, ok \in BOOLEAN : SendReply(h, ok)
  \/ \E from \in Phones, name \in ProfileNames, env \in Envs :
       \E text \in MediaAnswers(userState[from].mode) :
         impl = "wizard" /\ Webhook(from, text, name, env)
  \/ \E p \in Phones : conversations[p] = <<>> /\ FreeText(p)

SpecSessions == InitSessions /\ [][NextSessions]_vars

\* part_003:574-1481: p1 writes amounts and confirmations in several
\* spellings; every call succeeds, or the reply to p1 is lost
NextWording ==
  \E text \in {<<"paid", "50">>, <<"paid", "5k">>, <<"paid", "1.5k">>,
               <<"paid", "1.50k">>, <<"paid", "999,999">>,
               <<"Paid", "2,000,000">>, <<"paid", "50", "k">>,
               TYes, <<"YES">>, <<" ", "ok", " ">>, <<"Confirm">>,
               <<"maybe">>, <<"yes", "Please">>, <<"go", "ahead">>},
     env \in {NoFault, [NoFault EXCEPT !.replyOk = FALSE]} :
       Handle("p1", text, <<"User">>, env)

SpecWording == InitGatePay /\ [][NextWording]_vars

\* the windows of every revision, filled by free-text conversations
InitWindow == impl \in {"gate", "api", "redis", "wizard"} /\ EmptyStore

NextWindow == \E p \in Phones : FreeText(p)

SpecWindow == InitWindow /\ [][NextWindow]_vars

----------------------------------------------------------------------------
(* Vocabulary of the claims *)

\* the identity holds a PendingAction that has not expired
Unexpired(p) ==
  /\ pendingActions[p].type # "none"
  /\ now <= pendingActions[p].expiresAt

\* the entry setPendingAction stores for an intent proposed now
Proposal(intent) ==
  [type |-> intent.type, amount |-> intent.amount, name |-> intent.name,
   groupName |-> intent.groupName, timestamp |-> now,
   expiresAt |-> now + PendingTTL]

\* the run r wrote a contribution, a pending payment or a group, or changed
\* the name or the group of a member that existed before it
SensitiveWrite(r) ==
  \/ Len(r.contributions) > Len(contributions)
  \/ Len(r.pendingPayments) > Len(pendingPayments)
  \/ Len(r.groups) > Len(groups)
  \/ \E i \in 1..Len(members) : r.members[i] # members[i]

\* the run r answered p with the outcome of a pending action
Executed(p, r) == \E m \in r.out.sent : m.to = p /\ m.kind \notin AiReplies

\* no member record of p names a leader
HasNoLeader(p) ==
  \A i \in 1..Len(members) :
    members[i].phone = p => members[i].leader = NoPhone

\* the first member record of p names a leader
HasLeader(p) ==
  \E i \in 1..Len(members) :
    /\ members[i].phone = p
    /\ members[i].leader # NoPhone
    /\ \A j \in 1..(i - 1) : members[j].phone # p

LeaderOf(p) ==
  members[Min({i \in 1..Len(members) : members[i].phone = p})].leader

----------------------------------------------------------------------------
(* Claims *)

\* C1: a sensitive write (a contribution, a pending payment, a name, a group,
\* a membership) happens only while handling a message of the confirmation
\* vocabulary from an identity that holds an unexpired PendingAction; a
\* message that merely carries an amount or an introduction writes nothing.
C1_WritesOnlyOnConfirmation ==
  [][(\/ Len(contributions') > Len(contributions)
      \/ Len(pendingPayments') > Len(pendingPayments)
      \/ Len(groups') > Len(groups)
      \/ \E i \in 1..Len(members) : members'[i] # members[i])
       => isConfirmation(out'.text) /\ Unexpired(out'.from)]_vars

C3_ClearedAfterConfirmation ==
  \A p \in Phones :
    (out.from = p /\ isConfirmation(out.text)) => pendingActions[p] = NoAction

C7_NoLeaderNoRecord ==
  \A p \in Phones, senderName \in SenderNames, env \in Envs :
    \A r \in {Run(p, TYes, senderName, env)} :
      (Unexpired(p) /\ pendingActions[p].type = "payment" /\ HasNoLeader(p)) =>
        /\ r.pendingPayments = pendingPayments
        /\ r.contributions = contributions
        /\ r.pa[p] = NoAction
        /\ env.replyOk => Msg(p, "not_linked", 0) \in r.out.sent

\* C8: confirming a payment proposal of a sender with a leader records no
\* contribution; when nothing fails it adds one pending payment awaiting
\* that leader and sends the leader its reference.
C8_LeaderMustApprove ==
  \A p \in Phones, senderName \in SenderNames, env \in Envs :
    \A r \in {Run(p, TYes, senderName, env)} :
      (Unexpired(p) /\ pendingActions[p].type = "payment" /\ HasLeader(p)) =>
        /\ r.contributions = contributions
        /\ env = NoFault =>
             /\ Len(r.pendingPayments) = Len(pendingPayments) + 1
             /\ r.pendingPayments[Len(r.pendingPayments)] =
                  [member |-> p, leader |-> LeaderOf(p),
                   amount |-> pendingActions[p].amount,
                   status |-> "Awaiting Leader"]
             /\ Msg(LeaderOf(p), "confirm_request", Len(r.pendingPayments))
                  \in r.out.sent

\* C9: after a confirmation of a name proposal in which nothing fails, the
\* name stored in the sender's member record (the first one a lookup by
\* phone finds) is the proposed name, whatever it was before.
C9_NameWrittenUnconditionally ==
  \A p \in Phones, senderName \in SenderNames :
    \A r \in {Run(p, TYes, senderName, NoFault)} :
      (Unexpired(p) /\ pendingActions[p].type = "name_update") =>
        \E i \in 1..Len(r.members) :
          /\ r.members[i].phone = p
          /\ r.members[i].name = pendingActions[p].name
          /\ \A j \in 1..(i - 1) : r.members[j].phone # p

\* C10: an identity leads at most one group.
C10_AtMostOneGroupPerLeader ==
  \A i, j \in 1..Len(groups) : groups[i].leader = groups[j].leader => i = j

----------------------------------------------------------------------------
(* Claims about the forms, the replies and the message window *)

\* the replies of the form branches
FormReplies ==
  {"name_set", "create_group_description", "create_group_start_date",
   "create_group_end_date", "create_group_reminder", "group_created",
   "group_error"}

\* C11: the mode of an identity's form changes only to the step right after
\* the current one, to the first step of a form from none, or to none; no
\* step is skipped and none is revisited.
C11_OneStepAtATime ==
  [][\A p \in Phones :
       userState'[p].mode # userState[p].mode =>
         \/ userState'[p].mode = "none"
         \/ /\ userState[p].mode = "none"
            /\ userState'[p].mode \in {"ask_name", "create_group_name"}
         \/ /\ StepIndex(userState[p].mode) \in 1..(Len(FormSteps) - 1)
            /\ StepIndex(userState'[p].mode) = StepIndex(userState[p].mode) + 1
    ]_vars

\* a group name was received and the form is at the description step
C11_Witness ==
  /\ userState["p1"].mode = "create_group_description"
  /\ out.from = "p1"
  /\ out.text = TSavers

\* C12: while the form is at a step of the group creation, data holds the
\* field of every earlier step.
C12_EarlierFieldsPresent ==
  \A p \in Phones :
    \A j \in 1..Len(FormFields) :
      j < StepIndex(userState[p].mode) => FormFields[j] \in DOMAIN userState[p].data

\* the form is at the start date with name and description collected
C12_Witness ==
  /\ userState["p1"].mode = "create_group_start_date"
  /\ userState["p1"].data = [name |-> TSavers, description |-> TDescription]

Scenario == <<TCreateGroup, TSavers, TDescription, <<"today">>, <<"none">>, TWeekly>>

\* the state a run leaves
StateAfter(r) ==
  [userState |-> r.userState, members |-> r.members, groups |-> r.groups,
   joinRequests |-> r.joinRequests]

\* the state after the messages texts from phone, handled one after the
\* other with every call succeeding
RECURSIVE RunAll(_, _, _, _)
RunAll(s, phone, texts, name) ==
  IF texts = <<>> THEN s
  ELSE RunAll(StateAfter(FormRun(s, phone, Head(texts), name, NoFault)),
              phone, Tail(texts), name)

\* the group the scenario asks for
ScenarioGroup(p) ==
  [name |-> TSavers, leader |-> p, description |-> TDescription,
   startDate |-> CurrentDate, endDate |-> <<>>,
   reminderFrequency |-> TWeekly]

\* C15: from any state in which the sender's form is closed, the messages
\* 'create group', name, description, 'today', 'none', 'weekly' add exactly
\* one group -- led by the sender, with that name and description, starting
\* on the current date, with an empty end date and the frequency as sent --
\* and leave the form closed.
C15_EndToEnd ==
  \A p \in Phones, name \in ProfileNames :
    userState[p].mode = "none" =>
      \E s \in {RunAll(FormState, p, Scenario, name)} :
        /\ s.groups = Append(groups, ScenarioGroup(p))
        /\ s.userState[p] = NoState

\* the scenario has just been completed by p1 on an empty base
C15_Witness ==
  /\ out.from = "p1"
  /\ out.text = TWeekly
  /\ out.sent = {Msg("p1", "group_created", 0)}
  /\ groups = <<ScenarioGroup("p1")>>
  /\ userState["p1"] = NoState

\* C16: the message that follows 'set name' closes the name form, whatever
\* the store does.
C16_NextMessageClosesNameForm ==
  [][\A p \in Phones :
       (out'.from = p /\ userState[p].mode = "ask_name") =>
         userState'[p].mode = "none"
    ]_vars

\* messages that tell another party of the sender's action
Notifications ==
  {"confirm_request", "leader_confirmed", "leader_rejected", "invited",
   "invite_accepted", "invite_declined"}

\* C17: a run that ends normally has sent exactly one reply to the sender
\* (a notification that reaches the sender in its other role, as its own
\* leader or member, is not counted).
C17_ExactlyOneReply ==
  (out.from # NoPhone /\ out.status = 200) =>
    Cardinality({m \in out.sent :
                   m.to = out.from /\ m.kind \notin Notifications}) = 1

\* C18: a run that ends normally has appended the user message and then the
\* assistant reply to the sender's window.
C18_TurnsRemembered ==
  (out.from # NoPhone /\ out.status = 200) =>
    /\ Len(out.hist) = 2
    /\ out.hist[1] = Turn("user", out.text)
    /\ out.hist[2].role = "assistant"

\* the length of the window of the deployed revision
WindowOf == IF impl \in FormImpls THEN RuntimeWindow ELSE HistoryWindow

\* C19: the window of an identity never holds more turns than its maximum,
\* and it holds the most recent turns in arrival order: of the n turns that
\* arrived, turn n - Len + 1 up to turn n.
C19_WindowHoldsLatestTurns ==
  \A p \in Phones :
    LET n == 2 * Len(conversations[p])
        w == memory[p]
    IN  /\ Len(w) <= WindowOf
        /\ Len(w) = IF n < WindowOf THEN n ELSE WindowOf
        /\ \A i \in 1..Len(w) :
             /\ w[i].content = n - Len(w) + i
             /\ w[i].role = IF w[i].content % 2 = 1 THEN "user" ELSE "assistant"

\* more turns arrived than the longest window holds: the oldest are gone
C19_Witness ==
  /\ impl = "gate"
  /\ 2 * Len(conversations["p1"]) > HistoryWindow
  /\ Len(memory["p1"]) = HistoryWindow
  /\ memory["p1"][1].content = 2 * Len(conversations["p1"]) - HistoryWindow + 1

\* the most history turns a request of the deployed revision can carry
HistoryBound ==
  IF impl \in FormImpls THEN 2 * StoredExchanges + RuntimeWindow
  ELSE RecentTurns

\* C20: a completion request is the system message, then at most N turns --
\* the ones that arrived right before the current message, oldest first --
\* then the current user message.
C20_RequestShape ==
  request # <<>> =>
    LET h == SubSeq(request, 2, Len(request) - 1)
        current == request[Len(request)]
    IN  /\ request[1] = SystemMessage
        /\ current.role = "user"
        /\ Len(h) <= HistoryBound
        /\ \A i \in 1..Len(h) : h[i].content = current.content - Len(h) + i - 1

----------------------------------------------------------------------------
(* Claims about failures, empty messages, members and invitations *)

\* the outcome of a free-text message from p when every store call and
\* every send succeeds and the completion service behaves as `completion`
Asked(p, completion) ==
  IF impl \in FormImpls
    THEN FormRun(FormState, p, THello, <<"tj">>,
                 [NoFault EXCEPT !.completion = completion]).out
    ELSE Run(p, THello, <<"User">>,
             [NoFault EXCEPT !.completion = completion]).out

\* C21: whatever the completion service does, the reply operation returns a
\* text to the dispatcher -- the apology when the service failed -- so a
\* free-text message on which nothing else fails is answered with it.
C21_ApologyInsteadOfThrow ==
  \A p \in SessionPhones, completion \in Completions :
    userState[p].mode = "none" =>
      \E m \in Asked(p, completion).sent :
        /\ m.to = p
        /\ m.kind = IF completion = "ok" THEN "ai" ELSE "apology"

\* C22: every delivery that was handled was answered with the success
\* status, whatever failed inside the run.
C22_AlwaysSuccessStatus ==
  out.from # NoPhone => out.status = 200

\* C23: a delivery without text is acknowledged and nothing else happens:
\* no Member is created, the sender's form and window stay as they were and
\* no message is sent.
C23_EmptyMessageNoAction ==
  [][(out'.from # NoPhone /\ out'.text = <<>>) =>
       /\ out'.status = 200
       /\ members' = members
       /\ userState' = userState
       /\ out'.hist = <<>>
       /\ out'.sent = {}]_vars

\* C24: however many messages an identity sends, the base never holds two
\* Member records for it.
C24_OneMemberPerIdentity ==
  \A i, j \in 1..Len(members) :
    members[i].phone = members[j].phone => i = j

\* C25: no two Pending JoinRequests are for the same member and the same
\* group.
C25_OnePendingPerPair ==
  \A i, j \in 1..Len(joinRequests) :
    ( /\ joinRequests[i].status = "Pending"
      /\ joinRequests[j].status = "Pending"
      /\ joinRequests[i].member = joinRequests[j].member
      /\ joinRequests[i].group = joinRequests[j].group ) => i = j

\* the rejection an invitation by p deserves on the base (gs, ms): the named
\* group is missing, p does not lead it, or the invited identity has no
\* Member record; "none" when the invitation is in order
InviteRejection(gs, ms, p, text) ==
  LET named == {g \in 1..Len(gs) : gs[g].name = SubSeq(text, 4, Len(text))}
  IN  IF named = {} THEN "group_not_found"
      ELSE IF \A g \in named : gs[g].leader # p THEN "not_leader"
      ELSE IF \A m \in 1..Len(ms) : ms[m].phone # PhoneDigits(text[2])
        THEN "member_unknown"
      ELSE "none"

PendingFor(p) ==
  {i \in 1..Len(joinRequests) :
     joinRequests[i].member = p /\ joinRequests[i].status = "Pending"}

\* C27: a YES or NO of a member with Pending JoinRequests decides the oldest
\* of them and no other: YES assigns the member to its group and marks it
\* Approved, NO marks it Rejected and leaves the member's group alone; a run
\* that ends normally has told the member and the inviting leader.
C27_OldestRequestDecided ==
  [][\A p \in Phones :
       ( /\ out'.from = p
         /\ userState[p].mode = "none"
         /\ toLowerCase(out'.text) \in {TYes, <<"no">>}
         /\ PendingFor(p) # {}
         /\ joinRequests' # joinRequests ) =>
         \E req \in {Min(PendingFor(p))} :
           \E yes \in {toLowerCase(out'.text) = TYes} :
             /\ joinRequests' =
                  [joinRequests EXCEPT ![req].status =
                                         IF yes THEN "Approved" ELSE "Rejected",
                                       ![req].listed = FALSE]
             /\ \A m \in 1..Len(members') :
                  members'[m].phone = p =>
                    members'[m].group =
                      IF yes THEN joinRequests[req].group
                      ELSE members[m].group
             /\ ~out'.caught =>
                  out'.sent =
                    {Msg(p, IF yes THEN "joined" ELSE "declined", 0),
                     Msg(joinRequests[req].leader,
                         IF yes THEN "invite_accepted" ELSE "invite_declined",
                         0)}
    ]_vars

\* C28: a YES or NO of an identity without a Pending JoinRequest leaves
\* every JoinRequest, every Group and every Member record as it was -- the
\* run adds at most the sender's own Member record -- and the only message
\* of the run tells the sender that nothing is pending.
C28_NothingPending ==
  [][\A p \in Phones :
       ( /\ out'.from = p
         /\ userState[p].mode = "none"
         /\ toLowerCase(out'.text) \in {TYes, <<"no">>}
         /\ PendingFor(p) = {} ) =>
         /\ joinRequests' = joinRequests
         /\ groups' = groups
         /\ Len(members') >= Len(members)
         /\ \A m \in 1..Len(members') :
              IF m <= Len(members) THEN members'[m] = members[m]
              ELSE members'[m].phone = p
         /\ out'.sent \subseteq {Msg(p, "no_invitations", 0)}
         /\ ~out'.caught => out'.sent = {Msg(p, "no_invitations", 0)}
    ]_vars

\* part_003:1367-1420: the handler holds a pending action it read and has not
\* yet reached clearPendingAction or the catch
Executing(h) ==
  running[h].pc \in {"lookup", "create", "notify"}

\* C30: the state transitions of one identity are serialized: of two
\* confirmations of one identity that are delivered close together, at most
\* one executes the pending action; two handlers never execute the pending
\* action of the same identity at the same time.
C30_ExecutedAtMostOnce ==
  \A h1, h2 \in Handlers :
    (h1 # h2 /\ Executing(h1) /\ Executing(h2))
      => running[h1].from # running[h2].from

----------------------------------------------------------------------------
(* Claims about identities, snapshots, amounts, sends and records *)

\* the identities whose session state a step changes
SessionChanged ==
  {b \in Phones : \/ pendingActions'[b] # pendingActions[b]
                  \/ userState'[b] # userState[b]
                  \/ memory'[b] # memory[b]}

\* the identities whose message a step handles: the sender of the run that
\* ends with the step, or of the handler that moves
SessionActors ==
  {out'.from} \cup {running[h].from : h \in {g \in Handlers :
                                               running'[g] # running[g]}}
              \cup {running'[h].from : h \in {g \in Handlers :
                                                running'[g] # running[g]}}

\* C31: identities are independent in session state: a step that handles a
\* message of one identity leaves the form state, the pending action and
\* the message window of every other identity unchanged, however the
\* handlers of the two identities interleave.
C31_SessionsIndependent ==
  [][SessionChanged \subseteq SessionActors \ {NoPhone}]_vars

\* p1 finished a run while p2 holds a pending action, an open form or turns
\* in its window, and a handler of p2 waits in an await or p2 has a form open
C31_Witness ==
  /\ out.from = "p1"
  /\ \/ /\ pendingActions["p2"].type # "none"
        /\ pendingActions["p1"].type # "none"
        /\ \E h \in Handlers : running[h].from = "p2"
        /\ memory["p2"] # <<>>
     \/ /\ userState["p2"].mode # "none"
        /\ userState["p1"].mode # "none"
        /\ memory["p2"] # <<>>

\* C32: building the snapshot of an identity always completes: whichever of
\* the member and group reads fail, no exception leaves snapshot, and a
\* failed read only empties its own slice.
C32_SnapshotCompletes ==
  \A p \in Phones, memberOk \in BOOLEAN, groupOk \in BOOLEAN :
    \E snap \in {snapshot(members, p, memberOk, groupOk)} :
      /\ ~snap.thrown
      /\ ~memberOk => snap.member = 0
      /\ ~groupOk => snap.group = 0

\* C33: group names are unique: no two group records carry the same name,
\* and looking a name up gives the group first created under it.
C33_GroupNamesUnique ==
  /\ \A i, j \in 1..Len(groups) : groups[i].name = groups[j].name => i = j
  /\ \A i \in 1..Len(groups) :
       FormGroupByName(groups, groups[i].name, NoFault)
         = Min({j \in 1..Len(groups) : groups[j].name = groups[i].name})

\* the number a text writes as its amount
WrittenAmount(text) ==
  CASE text = <<"paid", "50">> -> 50
    [] text = <<"paid", "5k">> -> 5000
    [] text = <<"paid", "1.5k">> -> 1500
    [] text = <<"paid", "1.50k">> -> 1500
    [] text = <<"paid", "999,999">> -> 999999
    [] text = <<"Paid", "2,000,000">> -> 2000000
    [] text = <<"paid", "50", "k">> -> 50000
    [] OTHER -> 0

\* C34: when a text with a payment verb and an amount reaches an identity
\* that holds no PendingAction, the payment proposed carries the written
\* number, a 'k' suffix multiplying it by exactly 1000, and a payment is
\* proposed only for an amount above 0 and below 1000000.
C34_AmountAsWritten ==
  [][(pendingActions["p1"].type = "none" /\ WrittenAmount(out'.text) > 0) =>
       /\ pendingActions'["p1"].type = "payment" =>
            pendingActions'["p1"].amount = WrittenAmount(out'.text)
       /\ WrittenAmount(out'.text) >= MaxAmount =>
            pendingActions'["p1"].type # "payment"]_vars

\* C35: while p1 holds an unexpired PendingAction, 'YES', ' ok ' and
\* 'Confirm' are handled as 'yes' is: the action is executed, and when every
\* call succeeds p1 is answered with its outcome; 'maybe' and a sentence that
\* holds a word of the vocabulary execute nothing and leave the PendingAction
\* as it is.
C35_ConfirmationWording ==
  \A env \in Envs :
    Unexpired("p1") =>
      /\ \A text \in {<<"YES">>, <<" ", "ok", " ">>, <<"Confirm">>} :
           \E r \in {Run("p1", text, <<"User">>, env)},
              yes \in {Run("p1", TYes, <<"User">>, env)} :
             /\ r.pa = yes.pa
             /\ r.pendingPayments = yes.pendingPayments
             /\ r.contributions = yes.contributions
             /\ r.out.sent = yes.out.sent
             /\ env = NoFault => Executed("p1", r) /\ r.pa["p1"] = NoAction
      /\ \A text \in {<<"maybe">>, <<"yes", "Please">>} :
           \E r \in {Run("p1", text, <<"User">>, env)} :
             /\ ~Executed("p1", r)
             /\ ~SensitiveWrite(r)
             /\ r.pa["p1"] = pendingActions["p1"]

\* p1 proposed a payment and confirmed it with ' ok ': the pending payment is
\* written, and p1 has proposed the next payment
C35_Witness ==
  /\ Unexpired("p1")
  /\ Len(pendingPayments) = 1
  /\ out.text = <<"paid", "5k">>
  /\ Executed("p1", Run("p1", <<" ", "ok", " ">>, <<"User">>, NoFault))

\* C36: a send that fails is swallowed: the run in which only a send fails
\* still answers the webhook with 200 and leaves the PendingActions and the
\* records as the run without failure leaves them.
C36_SendFailureSwallowed ==
  \A p \in Phones, text \in {TYes, TPaid, THello},
     env \in {[NoFault EXCEPT !.replyOk = FALSE],
              [NoFault EXCEPT !.notifyOk = FALSE]} :
    \E r \in {Run(p, text, <<"User">>, env)},
       sent \in {Run(p, text, <<"User">>, NoFault)} :
      /\ r.out.status = 200
      /\ r.pa = sent.pa
      /\ r.pendingPayments = sent.pendingPayments
      /\ r.out.hist = sent.out.hist

\* C37: a pending-payment record yields one contribution at most, so that
\* after any 'confirm payment <id>' or 'reject payment <id>', whichever call
\* fails, there are no more contributions than pending-payment records; and
\* a record that has left 'Awaiting Leader' is not changed again, nor is a
\* contribution recorded for it.
C37_OneContributionPerRecord ==
  \A p \in Phones, i \in 1..MaxPendingPayments, env \in Envs :
    \A text \in {TConfirmPay(i), TRejectPay(i)} :
      \E r \in {Run(p, text, <<"User">>, env)} :
        /\ Len(r.contributions) <= Len(r.pendingPayments)
        /\ (i <= Len(pendingPayments)
              /\ pendingPayments[i].status # "Awaiting Leader") =>
             /\ r.pendingPayments = pendingPayments
             /\ r.contributions = contributions

\* C38: 'confirm payment <id>' and 'reject payment <id>' from an identity
\* other than the leader the record is addressed to change no record and
\* record no contribution.
C38_OnlyTheAddressedLeader ==
  \A p \in Phones, i \in 1..Len(pendingPayments), env \in Envs :
    \A text \in {TConfirmPay(i), TRejectPay(i)} :
      p # pendingPayments[i].leader =>
        \E r \in {Run(p, text, <<"User">>, env)} :
          /\ r.pendingPayments = pendingPayments
          /\ r.contributions = contributions

\* C39: the status of a JoinRequest changes only from Pending to Approved or
\* from Pending to Rejected, and after every handler a request is in the
\* pending set of its member exactly when its status is Pending.
C39_StatusMonotoneAndIndexed ==
  [][/\ \A i \in 1..Len(joinRequests) :
          joinRequests'[i].status # joinRequests[i].status =>
            /\ joinRequests[i].status = "Pending"
            /\ joinRequests'[i].status \in {"Approved", "Rejected"}
     /\ \A i \in 1..Len(joinRequests') :
          joinRequests'[i].listed <=> joinRequests'[i].status = "Pending"]_vars

\* C40: in a completion request the message being answered is the last
\* element, and it is none of the turns before it.
C40_CurrentMessageOnce ==
  request # <<>> =>
    /\ request[Len(request)].role = "user"
    /\ \A i \in 1..(Len(request) - 1) : request[i] # request[Len(request)]

============================================================================
